---------------------------- MODULE Spec2Model ----------------------------
(***************************************************************************)
(* The crawl frontier of documented_web_crawler.py (FrontierService) and   *)
(* enhanced_web_crawler.py (EnhancedFrontierService): URL                  *)
(* canonicalization, the per-host token bucket, the heap-backed priority   *)
(* queue with its seen-set, and the enqueue / lease / completed handlers.  *)
(*                                                                         *)
(* Strings are sequences of code points, so that lower(), split(),         *)
(* startswith() and sorted() are computed as Python computes them.  The    *)
(* alphabet is printable ASCII without space and '%' (no zone ids, nothing *)
(* for strip() to remove).                                                 *)
(*                                                                         *)
(* Floats are exact rationals: a priority score is held in units of        *)
(* 1/ScoreScale, a token count in units of 1/RateDen, time in clock ticks. *)
(***************************************************************************)
EXTENDS Integers, Sequences, FiniteSets, TLC

---------------------------------------------------------------------------
(* Bounds of the model *)

MaxDepthCfg == 1      \* the max_depth the frontier is configured with
MaxTime == 2          \* the monotonic clock runs over 0..MaxTime ticks
MaxOps == 5           \* handler calls per behaviour
MaxOutlinks == 1      \* outlinks carried by one completed result
MaxLeaseOps == 8      \* calls per behaviour of the seeding and leasing client
MaxCrawlOps == 6      \* calls per behaviour of the crawl from seeds
MaxBucketCalls == 4   \* calls of the token bucket on its own
MaxBucketTime == 6    \* the clock of the token bucket on its own
MaxMalformedOps == 4  \* calls per behaviour of the client with malformed URLs
MaxUrlsCfg == 3       \* the largest max_urls a crawl is configured with
MaxConcurrentCfg == 2 \* the largest max_concurrent a crawl is configured with
MaxOrchLeases == 5    \* lease calls per crawl
MaxScoreDepth == 4     \* the score functions are called with depths 0..MaxScoreDepth
MaxMonitorReads == 2   \* reads of the statistics by the monitor task per behaviour
MaxPoliteTime == 3     \* the clock of the politeness check runs over 0..MaxPoliteTime
MaxPoliteOps == 6      \* calls per behaviour of the politeness check
MaxPages == 3          \* the largest budget of a crawl to the end: the pages it can discover
MaxScenarioPolls == 6 \* calls of the end-to-end test before it polls only when admitted

---------------------------------------------------------------------------
(* Strings *)

SetMin(S) == CHOOSE x \in S : \A y \in S : x <= y

SetMax(S) == CHOOSE x \in S : \A y \in S : x >= y

\* str.find(c, start): 1-based index of the first c at or after start, 0 if none
Find(s, c, start) ==
  LET idx == {i \in start..Len(s) : s[i] = c}
  IN IF idx = {} THEN 0 ELSE SetMin(idx)

\* str.rfind(c): 1-based index of the last c, 0 if none
RFind(s, c) ==
  LET idx == {i \in 1..Len(s) : s[i] = c}
  IN IF idx = {} THEN 0 ELSE SetMax(idx)

LowerChar(c) == IF c \in 65..90 THEN c + 32 ELSE c

\* str.lower()
lower(s) == [i \in 1..Len(s) |-> LowerChar(s[i])]

\* str.startswith(p)
startswith(s, p) == Len(s) >= Len(p) /\ SubSeq(s, 1, Len(p)) = p

\* s < t on Python strings: lexicographic by code point
StrLess(s, t) ==
  LET d == {i \in 1..Len(s) : i > Len(t) \/ s[i] # t[i]}
  IN IF d = {} THEN Len(s) < Len(t)
     ELSE LET i == SetMin(d) IN i <= Len(t) /\ s[i] < t[i]

\* str.split(c): the pieces between the occurrences of c, empty ones kept
RECURSIVE split(_, _)
split(s, c) ==
  LET i == Find(s, c, 1)
  IN IF i = 0 THEN <<s>>
     ELSE <<SubSeq(s, 1, i - 1)>> \o split(SubSeq(s, i + 1, Len(s)), c)

\* c.join(parts)
RECURSIVE join(_, _)
join(parts, c) ==
  IF parts = <<>> THEN <<>>
  ELSE IF Len(parts) = 1 THEN parts[1]
  ELSE parts[1] \o <<c>> \o join(Tail(parts), c)

\* the place of x in an ascending list (stable: after its equals)
RECURSIVE InsertSorted(_, _)
InsertSorted(x, xs) ==
  IF xs = <<>> THEN <<x>>
  ELSE IF StrLess(x, xs[1]) THEN <<x>> \o xs
  ELSE <<xs[1]>> \o InsertSorted(x, Tail(xs))

\* sorted(list of strings)
RECURSIVE sorted(_)
sorted(xs) ==
  IF xs = <<>> THEN <<>>
  ELSE InsertSorted(xs[Len(xs)], sorted(SubSeq(xs, 1, Len(xs) - 1)))

IsDigit(c) == c \in 48..57

\* int(s) for a string of digits
RECURSIVE ParseInt(_)
ParseInt(s) ==
  IF s = <<>> THEN 0
  ELSE 10 * ParseInt(SubSeq(s, 1, Len(s) - 1)) + (s[Len(s)] - 48)

---------------------------------------------------------------------------
(* urllib.parse, as canonicalize uses it *)

SchemeChars == (97..122) \cup (65..90) \cup (48..57) \cup {43, 45, 46}

\* urllib.parse.uses_netloc (the non-empty ones)
UsesNetloc == {
  <<102,116,112>>, <<104,116,116,112>>, <<103,111,112,104,101,114>>,
  <<110,110,116,112>>, <<116,101,108,110,101,116>>, <<105,109,97,112>>,
  <<119,97,105,115>>, <<102,105,108,101>>, <<109,109,115>>,
  <<104,116,116,112,115>>, <<115,104,116,116,112>>, <<115,110,101,119,115>>,
  <<112,114,111,115,112,101,114,111>>, <<114,116,115,112>>,
  <<114,116,115,112,115>>, <<114,116,115,112,117>>, <<114,115,121,110,99>>,
  <<115,118,110>>, <<115,118,110,43,115,115,104>>, <<115,102,116,112>>,
  <<110,102,115>>, <<103,105,116>>, <<103,105,116,43,115,115,104>>,
  <<119,115>>, <<119,115,115>> }

\* ipaddress.ip_address(hostname) gives an IPv6Address: of the bracketed
\* hosts the model meets, "::1" is one and the others are no address at all
Ipv6Addresses == { <<58,58,49>> }

\* re.match(r"\Av[a-fA-F0-9]+\..+\Z", hostname)
IsIPvFuture(h) ==
  \E k \in 3..(Len(h) - 1) :
    /\ h[1] = 118
    /\ \A j \in 2..(k - 1) : h[j] \in (48..57) \cup (65..70) \cup (97..102)
    /\ h[k] = 46

\* urlsplit raises ValueError over the brackets of the netloc: one without
\* the other, or _check_bracketed_host(netloc.partition('[')[2].partition(']')[0])
BracketsRaise(netloc) ==
  LET open == Find(netloc, 91, 1)                             \* '['
      close == Find(netloc, 93, 1)                            \* ']'
      after == SubSeq(netloc, open + 1, Len(netloc))
      c == Find(after, 93, 1)
      bracketed_host == IF c = 0 THEN after ELSE SubSeq(after, 1, c - 1)
  IN IF open = 0 /\ close = 0 THEN FALSE
     ELSE IF open = 0 \/ close = 0 THEN TRUE
     ELSE IF bracketed_host # <<>> /\ bracketed_host[1] = 118  \* 'v'
       THEN ~IsIPvFuture(bracketed_host)
       ELSE bracketed_host \notin Ipv6Addresses

\* urlsplit(url): scheme, netloc, path, query, fragment; raises is whether it
\* raises ValueError instead.  The pieces are cut
\* out of url by position: start is where url[i+1:] begins once the scheme is
\* taken, rest where what follows the netloc begins, h and q the places of
\* the first '#' and of the first '?' before it (past the end when absent).
urlsplit(url) ==
  LET i == Find(url, 58, 1)                                   \* ':'
      hasScheme == /\ i > 1
                   /\ url[1] \in (65..90) \cup (97..122)
                   /\ \A k \in 1..(i - 1) : url[k] \in SchemeChars
      scheme == IF hasScheme THEN lower(SubSeq(url, 1, i - 1)) ELSE <<>>
      start == IF hasScheme THEN i + 1 ELSE 1
      hasNet == /\ Len(url) >= start + 1                      \* url[:2] == '//'
                /\ url[start] = 47
                /\ url[start + 1] = 47
      delims == {k \in (start + 2)..Len(url) : url[k] \in {47, 63, 35}}
      delim == IF delims = {} THEN Len(url) + 1 ELSE SetMin(delims)
      netloc == IF hasNet THEN SubSeq(url, start + 2, delim - 1) ELSE <<>>
      rest == IF hasNet THEN delim ELSE start
      hashes == {k \in rest..Len(url) : url[k] = 35}          \* '#'
      h == IF hashes = {} THEN Len(url) + 1 ELSE SetMin(hashes)
      marks == {k \in rest..(h - 1) : url[k] = 63}            \* '?'
      q == IF marks = {} THEN h ELSE SetMin(marks)
  IN [raises |-> BracketsRaise(netloc),
      scheme |-> scheme, netloc |-> netloc,
      path |-> SubSeq(url, rest, q - 1),
      query |-> SubSeq(url, q + 1, h - 1),
      fragment |-> SubSeq(url, h + 1, Len(url))]

\* SplitResult._hostinfo: (hostname, port), port <<>> when there is none
hostinfo(netloc) ==
  LET at == RFind(netloc, 64)                                 \* '@'
      hi == SubSeq(netloc, at + 1, Len(netloc))
      c == Find(hi, 58, 1)                                    \* ':'
      open == Find(hi, 91, 1)                                 \* '['
      bracketed == SubSeq(hi, open + 1, Len(hi))
      close == Find(bracketed, 93, 1)                         \* ']'
      after == IF close = 0 THEN <<>>
               ELSE SubSeq(bracketed, close + 1, Len(bracketed))
      ac == Find(after, 58, 1)
  IN IF open > 0
     THEN [hostname |-> IF close = 0 THEN bracketed
                        ELSE SubSeq(bracketed, 1, close - 1),
           port |-> IF ac = 0 THEN <<>> ELSE SubSeq(after, ac + 1, Len(after))]
     ELSE IF c = 0 THEN [hostname |-> hi, port |-> <<>>]
     ELSE [hostname |-> SubSeq(hi, 1, c - 1),
           port |-> SubSeq(hi, c + 1, Len(hi))]

\* SplitResult.hostname: lowercased, <<>> for None
hostname(netloc) == lower(hostinfo(netloc).hostname)

\* SplitResult.port raises ValueError
PortRaises(netloc) ==
  LET p == hostinfo(netloc).port
  IN p # <<>> /\ ((\E k \in 1..Len(p) : ~IsDigit(p[k])) \/ ParseInt(p) > 65535)

\* SplitResult.port: the number, -1 for None
port(netloc) ==
  LET p == hostinfo(netloc).port
  IN IF p = <<>> THEN -1 ELSE ParseInt(p)

\* urlunsplit((scheme, netloc, url, query, fragment))
urlunsplit(scheme, netloc, url, query, fragment) ==
  LET withNet == \/ netloc # <<>>
                 \/ /\ scheme # <<>>
                    /\ scheme \in UsesNetloc
                    /\ ~(Len(url) >= 2 /\ url[1] = 47 /\ url[2] = 47)
      u1 == IF withNet
            THEN <<47, 47>> \o netloc
                 \o (IF url # <<>> /\ url[1] # 47 THEN <<47>> \o url ELSE url)
            ELSE url
      u2 == IF scheme # <<>> THEN scheme \o <<58>> \o u1 ELSE u1
      u3 == IF query # <<>> THEN u2 \o <<63>> \o query ELSE u2
  IN IF fragment # <<>> THEN u3 \o <<35>> \o fragment ELSE u3

\* str(n) for n >= 0
RECURSIVE IntToStr(_)
IntToStr(n) ==
  IF n < 10 THEN <<48 + n>> ELSE IntToStr(n \div 10) \o <<48 + (n % 10)>>

---------------------------------------------------------------------------
(* canonicalize *)

\* The hex digests of the normalized URLs the model meets, in ascending
\* order of hashlib.sha256(url).hexdigest(): the place of a URL in this list
\* stands for its digest (equal places iff equal digests, and the same order).
Sha256Order == <<
  \* 03c7f2a5...  "https://news.example.com/section/article/"
  <<104,116,116,112,115,58,47,47,110,101,119,115,46,101,120,97,109,112,108,101,46,99,111,109,47,115,101,99,116,105,111,110,47,97,114,116,105,99,108,101,47>>,
  \* 0408a828...  "http:///x/"
  <<104,116,116,112,58,47,47,47,120,47>>,
  \* 045446cd...  "https://blog.example.com/page1/"
  <<104,116,116,112,115,58,47,47,98,108,111,103,46,101,120,97,109,112,108,101,46,99,111,109,47,112,97,103,101,49,47>>,
  \* 0af0996e...  "http://a.example/x/?a=1&b=2&gclid_src=7"
  <<104,116,116,112,58,47,47,97,46,101,120,97,109,112,108,101,47,120,47,63,97,61,49,38,98,61,50,38,103,99,108,105,100,95,115,114,99,61,55>>,
  \* 0b1c6b3a...  "https://blog.example.com/section/article/"
  <<104,116,116,112,115,58,47,47,98,108,111,103,46,101,120,97,109,112,108,101,46,99,111,109,47,115,101,99,116,105,111,110,47,97,114,116,105,99,108,101,47>>,
  \* 0f115db0...  "https://example.com/"
  <<104,116,116,112,115,58,47,47,101,120,97,109,112,108,101,46,99,111,109,47>>,
  \* 11ab17bf...  "https://b.example/y.html"
  <<104,116,116,112,115,58,47,47,98,46,101,120,97,109,112,108,101,47,121,46,104,116,109,108>>,
  \* 176ac36a...  "http://::1:8080/x/"
  <<104,116,116,112,58,47,47,58,58,49,58,56,48,56,48,47,120,47>>,
  \* 2c2aaf5b...  "a.example:80/x/?a=1&b=2&gclid_src=7"
  <<97,46,101,120,97,109,112,108,101,58,56,48,47,120,47,63,97,61,49,38,98,61,50,38,103,99,108,105,100,95,115,114,99,61,55>>,
  \* 30e980ae...  "https://example.com/page2/"
  <<104,116,116,112,115,58,47,47,101,120,97,109,112,108,101,46,99,111,109,47,112,97,103,101,50,47>>,
  \* 34c9e13c...  "mailto:a@b/"
  <<109,97,105,108,116,111,58,97,64,98,47>>,
  \* 354644a5...  "https://external-site.com/related/"
  <<104,116,116,112,115,58,47,47,101,120,116,101,114,110,97,108,45,115,105,116,101,46,99,111,109,47,114,101,108,97,116,101,100,47>>,
  \* 39e2cfc0...  "https://external-site.com/page1/"
  <<104,116,116,112,115,58,47,47,101,120,116,101,114,110,97,108,45,115,105,116,101,46,99,111,109,47,112,97,103,101,49,47>>,
  \* 4aa66132...  "https://blog.example.com/page2/"
  <<104,116,116,112,115,58,47,47,98,108,111,103,46,101,120,97,109,112,108,101,46,99,111,109,47,112,97,103,101,50,47>>,
  \* 4c3c72ea...  "a.example:80/x/?a=1&b=2"
  <<97,46,101,120,97,109,112,108,101,58,56,48,47,120,47,63,97,61,49,38,98,61,50>>,
  \* 4caacafe...  "https://news.example.com/"
  <<104,116,116,112,115,58,47,47,110,101,119,115,46,101,120,97,109,112,108,101,46,99,111,109,47>>,
  \* 4ff57fed...  "http://a.example/x/?a=1&b=2"
  <<104,116,116,112,58,47,47,97,46,101,120,97,109,112,108,101,47,120,47,63,97,61,49,38,98,61,50>>,
  \* 598cdce3...  "http:///nohost/"
  <<104,116,116,112,58,47,47,47,110,111,104,111,115,116,47>>,
  \* 5e393d04...  "https://news.example.com/page1/"
  <<104,116,116,112,115,58,47,47,110,101,119,115,46,101,120,97,109,112,108,101,46,99,111,109,47,112,97,103,101,49,47>>,
  \* 5f5f0afc...  "http://a.example:8080/x.html?y=2&z=1"
  <<104,116,116,112,58,47,47,97,46,101,120,97,109,112,108,101,58,56,48,56,48,47,120,46,104,116,109,108,63,121,61,50,38,122,61,49>>,
  \* 65d8b0ed...  "https://example.com/section/article/"
  <<104,116,116,112,115,58,47,47,101,120,97,109,112,108,101,46,99,111,109,47,115,101,99,116,105,111,110,47,97,114,116,105,99,108,101,47>>,
  \* 67d2ddef...  "https://blog.example.com/"
  <<104,116,116,112,115,58,47,47,98,108,111,103,46,101,120,97,109,112,108,101,46,99,111,109,47>>,
  \* 6c09a158...  "https://example.com/path/?id=123"
  <<104,116,116,112,115,58,47,47,101,120,97,109,112,108,101,46,99,111,109,47,112,97,116,104,47,63,105,100,61,49,50,51>>,
  \* 70963506...  "https://b.example/p/?id=1"
  <<104,116,116,112,115,58,47,47,98,46,101,120,97,109,112,108,101,47,112,47,63,105,100,61,49>>,
  \* 7c429dea...  "https://external-site.com/section/article/"
  <<104,116,116,112,115,58,47,47,101,120,116,101,114,110,97,108,45,115,105,116,101,46,99,111,109,47,115,101,99,116,105,111,110,47,97,114,116,105,99,108,101,47>>,
  \* 9e60080d...  "http:///A.Example/x/?a=1&b=2"
  <<104,116,116,112,58,47,47,47,65,46,69,120,97,109,112,108,101,47,120,47,63,97,61,49,38,98,61,50>>,
  \* a87f3c60...  "http:///a.example/x/?a=1&b=2"
  <<104,116,116,112,58,47,47,47,97,46,101,120,97,109,112,108,101,47,120,47,63,97,61,49,38,98,61,50>>,
  \* b1e9dd14...  "https://example.com/page1/"
  <<104,116,116,112,115,58,47,47,101,120,97,109,112,108,101,46,99,111,109,47,112,97,103,101,49,47>>,
  \* befde498...  "https://a.example/"
  <<104,116,116,112,115,58,47,47,97,46,101,120,97,109,112,108,101,47>>,
  \* cbc579b6...  "http:///A.Example/x/?a=1&b=2&gclid_src=7"
  <<104,116,116,112,58,47,47,47,65,46,69,120,97,109,112,108,101,47,120,47,63,97,61,49,38,98,61,50,38,103,99,108,105,100,95,115,114,99,61,55>>,
  \* e09f3eb7...  "https://a.example/x/"
  <<104,116,116,112,115,58,47,47,97,46,101,120,97,109,112,108,101,47,120,47>>,
  \* e4372b51...  "http://::1/"
  <<104,116,116,112,58,47,47,58,58,49,47>>,
  \* eb603da3...  "http:///a.example/x/?a=1&b=2&gclid_src=7"
  <<104,116,116,112,58,47,47,47,97,46,101,120,97,109,112,108,101,47,120,47,63,97,61,49,38,98,61,50,38,103,99,108,105,100,95,115,114,99,61,55>>,
  \* f17add54...  "https://external-site.com/page2/"
  <<104,116,116,112,115,58,47,47,101,120,116,101,114,110,97,108,45,115,105,116,101,46,99,111,109,47,112,97,103,101,50,47>>,
  \* fb7652c3...  "https://news.example.com/page2/"
  <<104,116,116,112,115,58,47,47,110,101,119,115,46,101,120,97,109,112,108,101,46,99,111,109,47,112,97,103,101,50,47>> >>

\* f"cid:sha256:{hashlib.sha256(normalized_url.encode('utf-8')).hexdigest()}"
sha256(s) == CHOOSE i \in 1..Len(Sha256Order) : Sha256Order[i] = s

\* param.lower().startswith(("utm_", "gclid="))
IsTracking(param) ==
  \/ startswith(lower(param), <<117,116,109,95>>)             \* "utm_"
  \/ startswith(lower(param), <<103,99,108,105,100,61>>)      \* "gclid="

\* the query parameters kept: non-empty and not a tracking parameter
RECURSIVE KeptParams(_)
KeptParams(params) ==
  IF params = <<>> THEN <<>>
  ELSE (IF params[1] # <<>> /\ ~IsTracking(params[1])
        THEN <<params[1]>> ELSE <<>>) \o KeptParams(Tail(params))

\* path.split("/")[-1]
LastSegment(path) == SubSeq(path, RFind(path, 47) + 1, Len(path))

\* TLC may evaluate a LET definition or an operator's argument anew at every
\* use; a value used many times over is bound by a set constructor instead,
\* {e : x \in {v}}, which evaluates v once.

\* documented_web_crawler.canonicalize after parsed = urlsplit(raw_url), up to
\* the reconstructed URL: [ok |-> FALSE] when it raises (urlsplit over the
\* brackets, parsed.port on a port that is no number)
NormalizeSplit(parsed) ==
  LET scheme == IF parsed.scheme # <<>> THEN lower(parsed.scheme)
                ELSE <<104,116,116,112>>                      \* "http"
      host == hostname(parsed.netloc)
      p == port(parsed.netloc)
      is_default_port ==
        \/ scheme = <<104,116,116,112>> /\ p = 80
        \/ scheme = <<104,116,116,112,115>> /\ p = 443
      port_suffix == IF p > 0 /\ ~is_default_port
                     THEN <<58>> \o IntToStr(p) ELSE <<>>
      netloc == host \o port_suffix
      path0 == IF parsed.path # <<>> THEN parsed.path ELSE <<47>>
      path == IF path0[Len(path0)] # 47 /\ Find(LastSegment(path0), 46, 1) = 0
              THEN path0 \o <<47>> ELSE path0
      query_params == IF parsed.query # <<>>
                      THEN KeptParams(split(parsed.query, 38)) ELSE <<>>
      normalized_query == join(sorted(query_params), 38)
  IN IF parsed.raises \/ PortRaises(parsed.netloc) THEN [ok |-> FALSE]
     ELSE [ok |-> TRUE,
           normalized_url |->
             urlunsplit(scheme, netloc, path, normalized_query, <<>>)]

\* documented_web_crawler.canonicalize up to the reconstructed URL
normalize(raw_url) ==
  CHOOSE r \in {NormalizeSplit(parsed) : parsed \in {urlsplit(raw_url)}} : TRUE

\* documented_web_crawler.canonicalize: (canonical_id, normalized_url)
canonicalize(raw_url) ==
  CHOOSE r \in
    {IF ~n.ok THEN [ok |-> FALSE]
     ELSE [ok |-> TRUE, canonical_id |-> sha256(n.normalized_url),
           normalized_url |-> n.normalized_url] :
       n \in {normalize(raw_url)}} : TRUE

\* enhanced_web_crawler.canonicalize after u = urlsplit(raw.strip()), up to
\* norm: [ok |-> FALSE] when it raises
NormalizeSplitE(u) ==
  LET scheme == IF u.scheme # <<>> THEN lower(u.scheme) ELSE <<104,116,116,112>>
      netloc == hostname(u.netloc)
      p == port(u.netloc)
      portS == IF p > 0 /\ ~( \/ scheme = <<104,116,116,112>> /\ p = 80
                              \/ scheme = <<104,116,116,112,115>> /\ p = 443 )
               THEN <<58>> \o IntToStr(p) ELSE <<>>
      path0 == IF u.path # <<>> THEN u.path ELSE <<47>>
      path == IF path0[Len(path0)] = 47 \/ Find(LastSegment(path0), 46, 1) > 0
              THEN path0 ELSE path0 \o <<47>>
      query == join(sorted(KeptParams(split(u.query, 38))), 38)
  IN IF u.raises \/ PortRaises(u.netloc) THEN [ok |-> FALSE]
     ELSE [ok |-> TRUE,
           normalized_url |-> urlunsplit(scheme, netloc \o portS, path, query, <<>>)]

\* enhanced_web_crawler.canonicalize up to norm; the model's URLs have no
\* white space for raw.strip() to take
normalizeE(raw) ==
  CHOOSE r \in {NormalizeSplitE(u) : u \in {urlsplit(raw)}} : TRUE

\* enhanced_web_crawler.canonicalize: (cid, norm)
canonicalizeE(raw) ==
  CHOOSE r \in
    {IF ~n.ok THEN [ok |-> FALSE]
     ELSE [ok |-> TRUE, canonical_id |-> sha256(n.normalized_url),
           normalized_url |-> n.normalized_url] :
       n \in {normalizeE(raw)}} : TRUE

\* "https://a.example/"
UrlRoot ==
  <<104,116,116,112,115,58,47,47,97,46,101,120,97,109,112,108,101,47>>

\* "HTTPS://A.Example:443/#top"
UrlRootSpelled ==
  <<72,84,84,80,83,58,47,47,65,46,69,120,97,109,112,108,101,58,52,52,51,47,35,116,111,112>>

\* "https://a.example/x"
UrlX ==
  <<104,116,116,112,115,58,47,47,97,46,101,120,97,109,112,108,101,47,120>>

\* "https://b.example/p?utm_source=q&id=1"
UrlP ==
  <<104,116,116,112,115,58,47,47,98,46,101,120,97,109,112,108,101,47,112,63,117,116,109,95,115,111,117,114,99,101,61,113,38,105,100,61,49>>

\* "https://b.example/y.html"
UrlY ==
  <<104,116,116,112,115,58,47,47,98,46,101,120,97,109,112,108,101,47,121,46,104,116,109,108>>

\* The URLs of the crawl
Urls == {UrlRoot, UrlRootSpelled, UrlX, UrlP, UrlY}

\* "http://[::1]/"
UrlIpv6 ==
  <<104,116,116,112,58,47,47,91,58,58,49,93,47>>

\* "http://[::1]:8080/x"
UrlIpv6Port ==
  <<104,116,116,112,58,47,47,91,58,58,49,93,58,56,48,56,48,47,120>>

\* "nohost"
UrlNoHost ==
  <<110,111,104,111,115,116>>

\* "/x"
UrlPathOnly ==
  <<47,120>>

\* "http:///x"
UrlEmptyHost ==
  <<104,116,116,112,58,47,47,47,120>>

\* "http://:80/x"
UrlPortOnly ==
  <<104,116,116,112,58,47,47,58,56,48,47,120>>

\* "http://a.example:x/"
UrlBadPort ==
  <<104,116,116,112,58,47,47,97,46,101,120,97,109,112,108,101,58,120,47>>

\* "http://u@a.example:8080/x.html?z=1&y=2#f"
UrlUserInfo ==
  <<104,116,116,112,58,47,47,117,64,97,46,101,120,97,109,112,108,101,58,56,48,56,48,47,120,46,104,116,109,108,63,122,61,49,38,121,61,50,35,102>>

\* "mailto:a@b"
UrlMail ==
  <<109,97,105,108,116,111,58,97,64,98>>

\* raw strings from which urlsplit parses no host
NoHostUrls == {UrlNoHost, UrlPathOnly, UrlEmptyHost, UrlPortOnly}

\* The URLs of the model: those of the crawl, and IPv6 literals, a port that
\* is no number, user information, a scheme without netloc
OtherUrls ==
  Urls \cup NoHostUrls \cup {UrlIpv6, UrlIpv6Port, UrlBadPort, UrlUserInfo, UrlMail}

\* run_web_crawler_demo's seed_urls: "https://example.com/",
\* "https://news.example.com/", "https://blog.example.com/"
DemoSeeds == <<
  <<104,116,116,112,115,58,47,47,101,120,97,109,112,108,101,46,99,111,109,47>>,
  <<104,116,116,112,115,58,47,47,110,101,119,115,46,101,120,97,109,112,108,101,46,99,111,109,47>>,
  <<104,116,116,112,115,58,47,47,98,108,111,103,46,101,120,97,109,112,108,101,46,99,111,109,47>> >>

\* the hosts the demo meets: those of the seeds and "external-site.com"
DemoHosts == {
  <<101,120,97,109,112,108,101,46,99,111,109>>,
  <<110,101,119,115,46,101,120,97,109,112,108,101,46,99,111,109>>,
  <<98,108,111,103,46,101,120,97,109,112,108,101,46,99,111,109>>,
  <<101,120,116,101,114,110,97,108,45,115,105,116,101,46,99,111,109>> }

\* simulate_parser_service: the outlinks of a page of base_host,
\* f"https://{base_host}/page1", f"https://{base_host}/page2",
\* f"https://{base_host}/section/article", "https://external-site.com/related"
SimulatedOutlinks(base_host) ==
  << <<104,116,116,112,115,58,47,47>> \o base_host \o <<47,112,97,103,101,49>>,
     <<104,116,116,112,115,58,47,47>> \o base_host \o <<47,112,97,103,101,50>>,
     <<104,116,116,112,115,58,47,47>> \o base_host
       \o <<47,115,101,99,116,105,111,110,47,97,114,116,105,99,108,101>>,
     <<104,116,116,112,115,58,47,47,101,120,116,101,114,110,97,108,45,115,105,116,101,46,99,111,109,47,114,101,108,97,116,101,100>> >>

\* every URL the demo can enqueue
DemoUrls ==
  {DemoSeeds[i] : i \in 1..3}
    \cup UNION { {SimulatedOutlinks(host)[i] : i \in 1..4} : host \in DemoHosts }

\* canonicalize and hostname extraction are pure: what they give for the
\* URLs a service is called with
CanonicalD(urls) == [u \in urls |-> canonicalize(u)]

CanonicalE(urls) == [u \in urls |-> canonicalizeE(u)]

\* urlparse.urlsplit(normalized_url).hostname of the URLs canonicalize accepts
HostOf(urls) ==
  [u \in {r \in urls : canonicalize(r).ok} |->
     hostname(urlsplit(canonicalize(u).normalized_url).netloc)]

\* The services' calls of canonicalize and of urlsplit(...).hostname are
\* answered from this table, computed once, when the model starts, for the
\* URLs the client of the specification at hand uses.
VARIABLE canonical

CanonicalTable(urls) ==
  [documented |-> CanonicalD(urls), enhanced |-> CanonicalE(urls),
   hostname |-> HostOf(urls)]

---------------------------------------------------------------------------
(* Token bucket *)

\* A rate is RateNum/RateDen tokens per clock tick; a bucket holds its tokens
\* in units of 1/den, so that refills are exact.

\* a bucket that starts empty
EmptyBucketD(num, den, burst_capacity, t) ==
  [num |-> num, den |-> den, capacity |-> burst_capacity,
   tokens |-> 0, last_update |-> t]

\* documented TokenBucket.__init__(rate_per_sec, burst_capacity) at time t
TokenBucketD(num, den, burst_capacity, t) ==
  [num |-> num, den |-> den, capacity |-> burst_capacity,
   tokens |-> burst_capacity * den, last_update |-> t]

\* a denied call that leaves the bucket as it found it
AllowWithoutRefill(b, t) ==
  LET tokens_to_add == (t - b.last_update) * b.num
      refilled == IF b.tokens + tokens_to_add < b.capacity * b.den
                  THEN b.tokens + tokens_to_add ELSE b.capacity * b.den
  IN IF refilled >= b.den
     THEN [bucket |-> [b EXCEPT !.tokens = refilled - b.den, !.last_update = t],
           ok |-> TRUE]
     ELSE [bucket |-> b, ok |-> FALSE]

\* documented TokenBucket.allow_request() at time t: the bucket after the
\* call and what it returns
allow_request(b, t) ==
  LET tokens_to_add == (t - b.last_update) * b.num
      refilled == IF b.tokens + tokens_to_add < b.capacity * b.den
                  THEN b.tokens + tokens_to_add ELSE b.capacity * b.den
  IN IF refilled >= b.den
     THEN [bucket |-> [b EXCEPT !.tokens = refilled - b.den, !.last_update = t],
           ok |-> TRUE]
     ELSE [bucket |-> [b EXCEPT !.tokens = refilled, !.last_update = t],
           ok |-> FALSE]

\* enhanced TokenBucket.__init__(rate_per_sec, burst) at time t
TokenBucketE(num, den, burst, t) ==
  [num |-> num, den |-> den, capacity |-> burst, tokens |-> burst * den,
   ts |-> t, requests_made |-> 0, requests_denied |-> 0]

\* a bucket that admits every request
AllowAlways(b, t) == [bucket |-> b, ok |-> TRUE]

\* enhanced TokenBucket.allow() at time t
allow(b, t) ==
  LET sum == b.tokens + (t - b.ts) * b.num
      refilled == IF sum < b.capacity * b.den THEN sum ELSE b.capacity * b.den
  IN IF refilled >= b.den
     THEN [bucket |-> [b EXCEPT !.tokens = refilled - b.den, !.ts = t,
                                !.requests_made = @ + 1],
           ok |-> TRUE]
     ELSE [bucket |-> [b EXCEPT !.tokens = refilled, !.ts = t,
                                !.requests_denied = @ + 1],
           ok |-> FALSE]

---------------------------------------------------------------------------
(* Queue items and heapq *)

\* the return value None
None == [none |-> TRUE]

\* the reverse of the items' order
ItemGreater(a, b) ==
  IF a.priority_score # b.priority_score
    THEN a.priority_score > b.priority_score
  ELSE a.canonical_id > b.canonical_id

\* CrawlItem / PQItem are @dataclass(order=True): compared as the tuple of
\* their fields.  canonical_id decides at the latest between two items of one
\* queue; PQItem's retry_count and last_error are never set and never reached.
ItemLess(a, b) ==
  IF a.priority_score # b.priority_score
    THEN a.priority_score < b.priority_score
  ELSE IF a.hostname # b.hostname THEN StrLess(a.hostname, b.hostname)
  ELSE IF a.canonical_id # b.canonical_id THEN a.canonical_id < b.canonical_id
  ELSE IF a.url # b.url THEN StrLess(a.url, b.url)
  ELSE a.depth < b.depth

\* heapq._siftdown(heap, startpos, pos) carrying newitem; positions are
\* Python's (0-based), heap[pos + 1] is Python's heap[pos]
RECURSIVE SiftDown(_, _, _, _)
SiftDown(heap, startpos, pos, newitem) ==
  IF pos > startpos /\ ItemLess(newitem, heap[((pos - 1) \div 2) + 1])
  THEN SiftDown([heap EXCEPT ![pos + 1] = heap[((pos - 1) \div 2) + 1]],
                startpos, (pos - 1) \div 2, newitem)
  ELSE [heap EXCEPT ![pos + 1] = newitem]

\* a push that drops the item
NoPush(heap, item) == heap

\* heapq.heappush(heap, item)
heappush(heap, item) == SiftDown(Append(heap, item), 0, Len(heap), item)

\* the loop of heapq._siftup: the smaller child moves up until a leaf is hit;
\* returns the heap and the leaf position
RECURSIVE SiftUpLoop(_, _)
SiftUpLoop(heap, pos) ==
  LET childpos == 2 * pos + 1
      rightpos == childpos + 1
      c == IF rightpos < Len(heap)
              /\ ~ItemLess(heap[childpos + 1], heap[rightpos + 1])
           THEN rightpos ELSE childpos
  IN IF childpos < Len(heap)
     THEN SiftUpLoop([heap EXCEPT ![pos + 1] = heap[c + 1]], c)
     ELSE [heap |-> heap, pos |-> pos]

\* heapq._siftup(heap, pos)
SiftUp(heap, pos) ==
  LET r == SiftUpLoop(heap, pos)
  IN SiftDown(r.heap, pos, r.pos, heap[pos + 1])

\* for i in reversed(range(n//2)): _siftup(x, i), from position i down to 0
RECURSIVE HeapifyFrom(_, _)
HeapifyFrom(x, i) == IF i < 0 THEN x ELSE HeapifyFrom(SiftUp(x, i), i - 1)

\* heapq.heapify(x)
heapify(x) == HeapifyFrom(x, (Len(x) \div 2) - 1)

\* a pop that leaves the list as it was
KeepItem(q, i) == q

\* list.pop(i), i 1-based: the list without its i-th element
RemoveAt(q, i) == SubSeq(q, 1, i - 1) \o SubSeq(q, i + 1, Len(q))

---------------------------------------------------------------------------
(* The frontier: FrontierService and EnhancedFrontierService *)

\* default_rate_limit = 0.5 requests per second per host, one tick a second
RateNum == 1
RateDen == 2

\* scores are held in units of 1/ScoreScale; freshness and host importance
\* in hundredths
ScoreScale == 100 * 60

\* the weighted sum without the inversion to a min-heap score
CombinedScore(depth, freshness, host_importance) ==
  (60 * (ScoreScale \div (1 + depth))) \div 100
  + (25 * freshness * ScoreScale) \div (100 * 100)
  + (15 * host_importance * ScoreScale) \div (100 * 100)

\* FrontierService.calculate_priority_score(depth, freshness, host_importance)
\*   1.0 - (0.6 * 1/(1+depth) + 0.25 * freshness + 0.15 * host_importance)
calculate_priority_score(depth, freshness, host_importance) ==
  LET depth_score == ScoreScale \div (1 + depth)
      combined_score == (60 * depth_score) \div 100
                        + (25 * freshness * ScoreScale) \div (100 * 100)
                        + (15 * host_importance * ScoreScale) \div (100 * 100)
  IN ScoreScale - combined_score

\* EnhancedFrontierService.score(depth, freshness, host_budget)
score(depth, freshness, host_budget) ==
  (60 * (ScoreScale \div (1 + depth))) \div 100
  + (25 * freshness * ScoreScale) \div (100 * 100)
  + (15 * host_budget * ScoreScale) \div (100 * 100)

\* A frontier F is the record of a service's fields.  The enhanced service
\* calls them pq, seen, content_seen, tokens; its stats call
\* urls_deduplicated duplicates_skipped.

\* FrontierService.__init__
FrontierInit ==
  [crawl_queue |-> <<>>, seen_urls |-> {}, content_hashes |-> {},
   rate_limiters |-> <<>>,
   stats |-> [urls_enqueued |-> 0, urls_crawled |-> 0,
              urls_deduplicated |-> 0, rate_limited |-> 0, urls_failed |-> 0]]

\* a depth check that lets one level too many through
ExceedsDepthLate(depth, max_depth) == depth > max_depth + 1

\* if depth > self.max_depth
ExceedsDepth(depth, max_depth) == depth > max_depth

\* a duplicate check that never finds the id
NeverSeen(seen, canonical_id) == FALSE

\* if canonical_id in self.seen_urls
AlreadySeen(seen, canonical_id) == canonical_id \in seen

\* a seen set that forgets the id
KeepSeen(seen, canonical_id) == seen

\* self.seen_urls.add(canonical_id)
MarkSeen(seen, canonical_id) == seen \cup {canonical_id}

\* a failed URL is remembered, so as not to try it again
RememberMalformed(F, url) == [F EXCEPT !.seen_urls = @ \cup {url}]

\* except Exception: ... return None, with the frontier as canonicalize's
\* exception left it
RejectMalformed(F, url) == F

\* FrontierService.enqueue_url(url, depth, freshness) at time t: the frontier
\* after the call and the return value
enqueue_url(F, max_depth, t, url, depth, freshness) ==
  LET c == canonical.documented[url]
      parsedHost == canonical.hostname[url]
      host == IF parsedHost # <<>> THEN parsedHost
              ELSE <<117,110,107,110,111,119,110>>            \* "unknown"
      crawl_item == [priority_score |-> calculate_priority_score(depth, freshness, 100),
                     hostname |-> host, canonical_id |-> c.canonical_id,
                     url |-> c.normalized_url, depth |-> depth]
  IN IF ~c.ok THEN [F |-> RejectMalformed(F, url), ret |-> None]
     ELSE IF ExceedsDepth(depth, max_depth) THEN [F |-> F, ret |-> None]
     ELSE IF AlreadySeen(F.seen_urls, c.canonical_id)
       THEN [F |-> [F EXCEPT !.stats.urls_deduplicated = @ + 1], ret |-> None]
     ELSE [F |-> [F EXCEPT
                    !.seen_urls = MarkSeen(@, c.canonical_id),
                    !.crawl_queue = heappush(@, crawl_item),
                    !.rate_limiters =
                       IF host \in DOMAIN @ THEN @
                       ELSE [h \in DOMAIN @ \cup {host} |->
                               IF h = host THEN TokenBucketD(RateNum, RateDen, 1, t)
                               ELSE @[h]],
                    !.stats.urls_enqueued = @ + 1],
           ret |-> crawl_item]

\* EnhancedFrontierService.enqueue(url, depth) at time t
enqueue(F, max_depth, t, url, depth) ==
  LET c == canonical.enhanced[url]
      host == canonical.hostname[url]                         \* or ""
      item == [priority_score |-> ScoreScale - score(depth, 100, 100),
               hostname |-> host, canonical_id |-> c.canonical_id,
               url |-> c.normalized_url, depth |-> depth]
  IN IF ~c.ok THEN [F |-> RejectMalformed(F, url), ret |-> None]
     ELSE IF depth > max_depth \/ c.canonical_id \in F.seen_urls
       THEN [F |-> IF c.canonical_id \in F.seen_urls
                   THEN [F EXCEPT !.stats.urls_deduplicated = @ + 1] ELSE F,
             ret |-> None]
     ELSE [F |-> [F EXCEPT
                    !.seen_urls = @ \cup {c.canonical_id},
                    !.crawl_queue = heappush(@, item),
                    !.rate_limiters =
                       IF host \in DOMAIN @ THEN @
                       ELSE [h \in DOMAIN @ \cup {host} |->
                               IF h = host THEN TokenBucketE(RateNum, RateDen, 1, t)
                               ELSE @[h]],
                    !.stats.urls_enqueued = @ + 1],
           ret |-> item]

\* a scan that gives up at the first item whose host is rate limited
ScanFirstOnly(F, t, i) ==
  IF i > Len(F.crawl_queue) THEN [F |-> F, ret |-> None]
  ELSE LET item == F.crawl_queue[i]
           a == allow_request(F.rate_limiters[item.hostname], t)
           F1 == [F EXCEPT !.rate_limiters[item.hostname] = a.bucket]
       IN IF a.ok
          THEN [F |-> [F1 EXCEPT !.crawl_queue = heapify(RemoveAt(@, i))],
                ret |-> item]
          ELSE [F |-> [F1 EXCEPT !.stats.rate_limited = @ + 1], ret |-> None]

\* the scan of FrontierService.get_next_crawl_item from queue index i on
\* (1-based): every bucket asked keeps what allow_request did to it
RECURSIVE ScanD(_, _, _)
ScanD(F, t, i) ==
  IF i > Len(F.crawl_queue)
  THEN [F |-> IF F.crawl_queue # <<>>
              THEN [F EXCEPT !.stats.rate_limited = @ + 1] ELSE F,
        ret |-> None]
  ELSE LET item == F.crawl_queue[i]
           known == item.hostname \in DOMAIN F.rate_limiters
           a == allow_request(F.rate_limiters[item.hostname], t)
           F1 == [F EXCEPT !.rate_limiters[item.hostname] = a.bucket]
       IN IF ~known THEN ScanD(F, t, i + 1)
          ELSE IF a.ok
            THEN [F |-> [F1 EXCEPT !.crawl_queue = heapify(RemoveAt(@, i))],
                  ret |-> item]
          ELSE ScanD(F1, t, i + 1)

\* FrontierService.get_next_crawl_item() at time t
get_next_crawl_item(F, t) == ScanD(F, t, 1)

\* the scan of EnhancedFrontierService.lease from queue index i on
RECURSIVE ScanE(_, _, _)
ScanE(F, t, i) ==
  IF i > Len(F.crawl_queue) THEN [F |-> F, ret |-> None]
  ELSE LET item == F.crawl_queue[i]
           known == item.hostname \in DOMAIN F.rate_limiters
           a == allow(F.rate_limiters[item.hostname], t)
           F1 == [F EXCEPT !.rate_limiters[item.hostname] = a.bucket]
       IN IF ~known THEN ScanE(F, t, i + 1)
          ELSE IF a.ok
            THEN [F |-> [F1 EXCEPT !.crawl_queue = heapify(RemoveAt(@, i))],
                  ret |-> item]
          ELSE ScanE(F1, t, i + 1)

\* EnhancedFrontierService.lease() at time t
lease(F, t) == ScanE(F, t, 1)

\* for link_url in discovered_links: await self.enqueue_url(link_url, depth)
RECURSIVE EnqueueAllD(_, _, _, _, _)
EnqueueAllD(F, max_depth, t, links, depth) ==
  IF links = <<>> THEN F
  ELSE EnqueueAllD(enqueue_url(F, max_depth, t, links[1], depth, 100).F,
                   max_depth, t, Tail(links), depth)

\* a link depth that stays at the page's depth
SameDepth(current_depth) == current_depth

\* depth=current_depth + 1
ChildDepth(current_depth) == current_depth + 1

\* if content_hash and content_hash in self.content_hashes; content_hash ""
\* stands for an absent or empty hash
IsDuplicateContent(hashes, content_hash) ==
  content_hash # "" /\ content_hash \in hashes

\* FrontierService.process_crawled_content(crawl_result) at time t
process_crawled_content(F, max_depth, t, crawl_result) ==
  LET content_hash == crawl_result.content_hash
      F1 == IF content_hash # ""
            THEN [F EXCEPT !.content_hashes = @ \cup {content_hash}] ELSE F
      F2 == EnqueueAllD(F1, max_depth, t, crawl_result.outlinks,
                        ChildDepth(crawl_result.depth))
  IN IF IsDuplicateContent(F.content_hashes, content_hash) THEN F
     ELSE [F2 EXCEPT !.stats.urls_crawled = @ + 1]

\* for link in doc.get("outlinks", []): await self.enqueue(link, depth + 1)
RECURSIVE EnqueueAllE(_, _, _, _, _)
EnqueueAllE(F, max_depth, t, links, depth) ==
  IF links = <<>> THEN F
  ELSE EnqueueAllE(enqueue(F, max_depth, t, links[1], depth).F,
                   max_depth, t, Tail(links), depth)

\* an on_parsed that enqueues the outlinks and counts nothing
OnParsedUncounted(F, max_depth, t, doc) ==
  EnqueueAllE(F, max_depth, t, doc.outlinks, doc.depth + 1)

\* EnhancedFrontierService.on_parsed(doc) at time t (content_seen is never
\* read or written; the database write is outside the frontier)
on_parsed(F, max_depth, t, doc) ==
  LET F1 == EnqueueAllE(F, max_depth, t, doc.outlinks, doc.depth + 1)
  IN [F1 EXCEPT !.stats.urls_crawled = @ + 1]

---------------------------------------------------------------------------
(* The state machine: a client calling the frontier's entry points *)

\* The raw URLs the client enqueues and the pages link to: two spellings of
\* one page, a second page of the same host and a page of another host
RawUrls == {UrlRoot, UrlRootSpelled, UrlX, UrlP}

\* depths the client enqueues at: up to one past the ceiling
Depths == 0..(MaxDepthCfg + 1)

\* freshness values (hundredths) the client passes to enqueue_url
FreshnessValues == {100}

\* content hashes a parsed page may carry ("" is none)
ContentHashes == {"", "h1"}

\* the outlink lists a parsed page may carry
OutlinkLists == UNION {[1..n -> RawUrls] : n \in 0..MaxOutlinks}

VARIABLES
  impl,            \* "documented" (FrontierService) or "enhanced"
  crawl_queue,     \* the heap list
  seen_urls,       \* canonical ids ever admitted
  content_hashes,  \* content hashes recorded
  rate_limiters,   \* hostname -> token bucket
  stats,           \* the counters
  now,             \* time.monotonic(), in ticks
  in_flight,       \* items leased and not yet completed
  ret,             \* what the last call returned
  ops,             \* calls made so far
  denied,          \* canonical ids of the items a lease scan found rate limited
  leases,          \* the leases so far: the item and the ids it left queued
  enqueue_calls,   \* the enqueue calls so far: the raw URL, and was it too deep
  completed_hashes,\* the non-empty content hashes completions have carried
  tb,              \* a token bucket on its own
  tb_ret,          \* what the last call of tb returned
  tb_last_admit,   \* when tb last admitted a request, -1 if never
  cn,              \* canonicalize on its own: the raw URLs and the results
  scored,          \* the score functions on their own: the last two calls
  tasks,           \* the event loop's tasks: crawl() step by step, and the monitor
  crawler          \* the orchestrator: crawl()'s locals and its place in the loop

vars == <<impl, crawl_queue, seen_urls, content_hashes, rate_limiters, stats,
          now, in_flight, ret, ops, denied, leases, enqueue_calls,
          completed_hashes, tb, tb_ret, tb_last_admit, canonical, cn, scored, tasks, crawler>>

\* the frontier's fields as one record
Frontier ==
  [crawl_queue |-> crawl_queue, seen_urls |-> seen_urls,
   content_hashes |-> content_hashes, rate_limiters |-> rate_limiters,
   stats |-> stats]

\* the frontier's fields become those of G
Becomes(G) ==
  /\ crawl_queue' = G.crawl_queue
  /\ seen_urls' = G.seen_urls
  /\ content_hashes' = G.content_hashes
  /\ rate_limiters' = G.rate_limiters
  /\ stats' = G.stats

QueuedIds(q) == {q[i].canonical_id : i \in 1..Len(q)}

\* a frontier just constructed, nothing called yet
InitFrontier ==
  /\ impl \in {"documented", "enhanced"}
  /\ crawl_queue = FrontierInit.crawl_queue
  /\ seen_urls = FrontierInit.seen_urls
  /\ content_hashes = FrontierInit.content_hashes
  /\ rate_limiters = FrontierInit.rate_limiters
  /\ stats = FrontierInit.stats
  /\ now = 0
  /\ in_flight = {}
  /\ ret = None
  /\ ops = 0
  /\ denied = {}
  /\ leases = <<>>
  /\ enqueue_calls = {}
  /\ completed_hashes = {}

Init ==
  /\ InitFrontier
  /\ canonical = CanonicalTable(Urls)
  /\ tb = None
  /\ tb_ret = None
  /\ tb_last_admit = -1
  /\ cn = None
  /\ scored = None
  /\ tasks = None
  /\ crawler = None

\* await frontier.enqueue_url(url, depth, freshness)
EnqueueUrl(url, depth, freshness) ==
  /\ impl = "documented"
  /\ LET r == enqueue_url(Frontier, MaxDepthCfg, now, url, depth, freshness)
     IN Becomes(r.F) /\ ret' = r.ret
  /\ enqueue_calls' = enqueue_calls \cup {[url |-> url, deep |-> depth > MaxDepthCfg]}
  /\ ops' = ops + 1
  /\ UNCHANGED <<impl, now, in_flight, denied, leases, completed_hashes,
                 tb, tb_ret, tb_last_admit, canonical, cn, scored, tasks, crawler>>

\* await frontier.enqueue(url, depth)
Enqueue(url, depth) ==
  /\ impl = "enhanced"
  /\ LET r == enqueue(Frontier, MaxDepthCfg, now, url, depth)
     IN Becomes(r.F) /\ ret' = r.ret
  /\ enqueue_calls' = enqueue_calls \cup {[url |-> url, deep |-> depth > MaxDepthCfg]}
  /\ ops' = ops + 1
  /\ UNCHANGED <<impl, now, in_flight, denied, leases, completed_hashes,
                 tb, tb_ret, tb_last_admit, canonical, cn, scored, tasks, crawler>>

\* the ids of the queued items a scan that returned r asked and found denied:
\* those before the returned item, all of them when it returned None
ScanDenied(q, r) ==
  {q[i].canonical_id : i \in {k \in 1..Len(q) : \A j \in 1..k : q[j] # r}}

\* await frontier.get_next_crawl_item() / await frontier.lease(); the lease is
\* logged with the item and the ids it left queued, and with the clock's
\* reading when timed
LeaseLogging(timed) ==
  /\ LET r == IF impl = "documented" THEN get_next_crawl_item(Frontier, now)
              ELSE lease(Frontier, now)
         entry == [item |-> r.ret, queued |-> QueuedIds(r.F.crawl_queue)]
     IN /\ Becomes(r.F)
        /\ ret' = r.ret
        /\ in_flight' = IF r.ret = None THEN in_flight ELSE in_flight \cup {r.ret}
        /\ denied' = denied \cup ScanDenied(crawl_queue, r.ret)
        /\ leases' = IF r.ret = None THEN leases
                     ELSE IF timed
                       THEN Append(leases, [item |-> entry.item,
                                            queued |-> entry.queued,
                                            at |-> now])
                     ELSE Append(leases, entry)
  /\ ops' = ops + 1
  /\ UNCHANGED <<impl, now, enqueue_calls, completed_hashes,
                 tb, tb_ret, tb_last_admit, canonical, cn, scored, tasks, crawler>>

Lease == LeaseLogging(FALSE)

\* the parsed result of a leased item
ParseResult(item, content_hash, outlinks) ==
  [canonical_id |-> item.canonical_id, url |-> item.url, depth |-> item.depth,
   outlinks |-> outlinks, content_hash |-> content_hash]

\* the enqueue calls a completion makes: one for every outlink, none when the
\* documented service returns early on duplicate content
LinkCalls(item, content_hash, outlinks) ==
  IF impl = "documented" /\ IsDuplicateContent(content_hashes, content_hash)
  THEN {}
  ELSE {[url |-> outlinks[i], deep |-> ChildDepth(item.depth) > MaxDepthCfg] :
          i \in 1..Len(outlinks)}

\* await frontier.process_crawled_content(parse_result) /
\* await frontier.on_parsed(parsed_result) for a leased item
OnCompleted(item, content_hash, outlinks) ==
  /\ item \in in_flight
  /\ LET doc == ParseResult(item, content_hash, outlinks)
     IN Becomes(IF impl = "documented"
                THEN process_crawled_content(Frontier, MaxDepthCfg, now, doc)
                ELSE on_parsed(Frontier, MaxDepthCfg, now, doc))
  /\ in_flight' = in_flight \ {item}
  /\ ret' = None
  /\ enqueue_calls' = enqueue_calls \cup LinkCalls(item, content_hash, outlinks)
  /\ completed_hashes' = completed_hashes \cup ({content_hash} \ {""})
  /\ ops' = ops + 1
  /\ UNCHANGED <<impl, now, denied, leases, tb, tb_ret, tb_last_admit,
                 canonical, cn, scored, tasks, crawler>>

\* the monotonic clock advances
Tick ==
  /\ now < MaxTime
  /\ now' = now + 1
  /\ UNCHANGED <<impl, crawl_queue, seen_urls, content_hashes, rate_limiters,
                 stats, in_flight, ret, ops, denied, leases, enqueue_calls,
                 completed_hashes, tb, tb_ret, tb_last_admit, canonical, cn, scored, tasks, crawler>>

\* a client that calls the entry points in any order, MaxOps times
Next ==
  \/ /\ ops < MaxOps
     /\ \/ \E url \in RawUrls, depth \in Depths, freshness \in FreshnessValues :
             EnqueueUrl(url, depth, freshness)
        \/ \E url \in RawUrls, depth \in Depths : Enqueue(url, depth)
        \/ Lease
        \/ \E item \in in_flight, content_hash \in ContentHashes,
              outlinks \in OutlinkLists : OnCompleted(item, content_hash, outlinks)
  \/ Tick

Spec == Init /\ [][Next]_vars

\* the seeds of the seeding and leasing client: two pages of each host
SeedUrls == {UrlRoot, UrlX, UrlP, UrlY}

\* a client that seeds the frontier with URLs it has not enqueued before, at
\* depths within the ceiling, and leases; MaxLeaseOps calls
NextLease ==
  \/ /\ ops < MaxLeaseOps
     /\ \/ \E url \in SeedUrls, depth \in 0..MaxDepthCfg :
             /\ canonical.documented[url].canonical_id \notin seen_urls
             /\ EnqueueUrl(url, depth, 100)
        \/ \E url \in SeedUrls, depth \in 0..MaxDepthCfg :
             /\ canonical.enhanced[url].canonical_id \notin seen_urls
             /\ Enqueue(url, depth)
        \/ Lease
  \/ Tick

SpecLease == Init /\ [][NextLease]_vars

\* a crawl from seeds: the client enqueues seeds at depth 0, leases, and
\* completes what it leased; MaxCrawlOps calls
NextCrawl ==
  \/ /\ ops < MaxCrawlOps
     /\ \/ \E url \in RawUrls : EnqueueUrl(url, 0, 100)
        \/ \E url \in RawUrls : Enqueue(url, 0)
        \/ Lease
        \/ \E item \in in_flight, content_hash \in ContentHashes,
              outlinks \in OutlinkLists : OnCompleted(item, content_hash, outlinks)
  \/ Tick

SpecCrawl == Init /\ [][NextCrawl]_vars

---------------------------------------------------------------------------
(* A token bucket on its own *)

\* the rates (tokens per tick, as <<numerator, denominator>>) and capacities
\* a bucket is built with
BucketRates == {<<1, 2>>, <<1, 1>>, <<2, 1>>, <<2, 3>>}

BucketCapacities == {1, 2}

\* TokenBucket(rate, capacity), built at time 0.  The code computes in
\* binary floating point and the model in exact fractions: the buckets are
\* those on which the two agree at every call, a rate that is a multiple of
\* 1/2 (every sum is exact) or capacity 1 (an admitted call leaves
\* min(1, .) - 1 = 0 and a denied one the rate itself).  With rate 2/3 and
\* capacity 2 the code's sums round to just below 1.0, as
\* 0.33333333333333326 + 0.6666666666666666 = 0.9999999999999999, and the
\* call is denied where the exact sum admits.
InitBucket ==
  /\ InitFrontier
  /\ canonical = CanonicalTable(Urls)
  /\ \E r \in BucketRates, c \in BucketCapacities :
       /\ r[2] \in {1, 2} \/ c = 1
       /\ tb = IF impl = "documented" THEN TokenBucketD(r[1], r[2], c, 0)
               ELSE TokenBucketE(r[1], r[2], c, 0)
  /\ tb_ret = None
  /\ tb_last_admit = -1
  /\ cn = None
  /\ scored = None
  /\ tasks = None
  /\ crawler = None

\* tb.allow_request() / tb.allow()
AllowCall ==
  /\ ops < MaxBucketCalls
  /\ LET r == IF impl = "documented" THEN allow_request(tb, now)
              ELSE allow(tb, now)
     IN /\ tb' = r.bucket
        /\ tb_ret' = r.ok
        /\ tb_last_admit' = IF r.ok THEN now ELSE tb_last_admit
  /\ ops' = ops + 1
  /\ UNCHANGED <<impl, crawl_queue, seen_urls, content_hashes, rate_limiters,
                 stats, now, in_flight, ret, denied, leases, enqueue_calls,
                 completed_hashes, canonical, cn, scored, tasks, crawler>>

\* the monotonic clock advances
TickBucket ==
  /\ now < MaxBucketTime
  /\ now' = now + 1
  /\ UNCHANGED <<impl, crawl_queue, seen_urls, content_hashes, rate_limiters,
                 stats, in_flight, ret, ops, denied, leases, enqueue_calls,
                 completed_hashes, tb, tb_ret, tb_last_admit, canonical, cn, scored, tasks, crawler>>

NextBucket == AllowCall \/ TickBucket

SpecBucket == InitBucket /\ [][NextBucket]_vars

---------------------------------------------------------------------------
(* Properties of the frontier *)

\* the canonical id the running service gives a raw URL
Cid(url) ==
  IF impl = "documented" THEN canonical.documented[url].canonical_id
  ELSE canonical.enhanced[url].canonical_id

\* the client's enqueue call of the running service
EnqueueCall(url, depth) ==
  \/ \E freshness \in FreshnessValues : EnqueueUrl(url, depth, freshness)
  \/ Enqueue(url, depth)

\* an enqueue call within the depth ceiling was made before for url's id
CalledBefore(url) ==
  \E c \in enqueue_calls : ~c.deep /\ Cid(c.url) = Cid(url)

\* an enqueue call beyond the depth ceiling was made before for url's id
RejectedDeep(url) ==
  \E c \in enqueue_calls : c.deep /\ Cid(c.url) = Cid(url)

\* the bucket of the item's host would admit a request now
WouldAdmit(item) ==
  IF impl = "documented"
  THEN allow_request(rate_limiters[item.hostname], now).ok
  ELSE allow(rate_limiters[item.hostname], now).ok

\* C1: of the enqueue calls within the depth ceiling whose raw URLs have one
\* canonical id, the first returns a crawl item; every later one returns None,
\* adds one to the deduplicated counter and leaves the queue and the enqueued
\* counter as they were.
C1_DuplicateEnqueueRejected ==
  [][\A url \in RawUrls, depth \in 0..MaxDepthCfg :
       EnqueueCall(url, depth) =>
         IF CalledBefore(url)
         THEN /\ ret' = None
              /\ stats'.urls_deduplicated = stats.urls_deduplicated + 1
              /\ crawl_queue' = crawl_queue
              /\ stats'.urls_enqueued = stats.urls_enqueued
         ELSE /\ ret' # None
              /\ ret'.canonical_id = Cid(url)]_vars

\* two calls, one for each spelling of the same page: the second was rejected
C1_Witness ==
  /\ ops = 2
  /\ {c.url : c \in enqueue_calls} = {UrlRoot, UrlRootSpelled}
  /\ \A c \in enqueue_calls : ~c.deep
  /\ ret = None
  /\ stats.urls_deduplicated = 1
  /\ stats.urls_enqueued = 1
  /\ Len(crawl_queue) = 1

\* C2: no two items of the queue have the same canonical id, whatever the
\* interleaving of enqueue, lease and completion.
C2_NoDuplicateQueued ==
  \A i, j \in 1..Len(crawl_queue) :
    i # j => crawl_queue[i].canonical_id # crawl_queue[j].canonical_id

\* two items queued after a lease, a completion and a rejected duplicate
C2_Witness ==
  /\ Len(crawl_queue) >= 2
  /\ stats.urls_deduplicated >= 1
  /\ stats.urls_crawled >= 1

\* C3: an enqueue beyond the depth ceiling returns None and leaves the seen
\* set, the queue, the limiter map and the enqueued counter as they were; a
\* later enqueue of the same page within the ceiling, the page not admitted
\* otherwise, succeeds.
C3_DepthRejectionLeavesNoTrace ==
  [][\A url \in RawUrls, depth \in Depths :
       EnqueueCall(url, depth) =>
         /\ depth > MaxDepthCfg =>
              /\ ret' = None
              /\ seen_urls' = seen_urls
              /\ crawl_queue' = crawl_queue
              /\ rate_limiters' = rate_limiters
              /\ stats'.urls_enqueued = stats.urls_enqueued
         /\ (depth <= MaxDepthCfg /\ RejectedDeep(url) /\ ~CalledBefore(url)) =>
              /\ ret' # None
              /\ ret'.canonical_id = Cid(url)
              /\ ret'.depth = depth
              /\ Cid(url) \in seen_urls']_vars

\* a page rejected for its depth, then admitted within the ceiling
C3_Witness ==
  /\ ops = 2
  /\ ret # None
  /\ stats.urls_enqueued = 1
  /\ Len(crawl_queue) = 1
  /\ \E c \in enqueue_calls : c.deep /\ Cid(c.url) = ret.canonical_id
  /\ \E c \in enqueue_calls : ~c.deep /\ Cid(c.url) = ret.canonical_id

\* no queued or leased item is deeper than the ceiling
DepthCeiling ==
  /\ \A i \in 1..Len(crawl_queue) : crawl_queue[i].depth <= MaxDepthCfg
  /\ \A item \in in_flight : item.depth <= MaxDepthCfg

\* C4: every queued or leased item has depth <= max_depth, and every item a
\* completion enqueues has the completed item's depth plus one.
C4_DepthCeiling ==
  /\ []DepthCeiling
  /\ [][\A item \in in_flight, content_hash \in ContentHashes,
           outlinks \in OutlinkLists :
          OnCompleted(item, content_hash, outlinks) =>
            \A i \in 1..Len(crawl_queue') :
              crawl_queue'[i].canonical_id \notin QueuedIds(crawl_queue) =>
                crawl_queue'[i].depth = item.depth + 1]_vars

\* enqueue, lease, completion: the completion queued a link at the ceiling
C4_Witness ==
  /\ ops = 3
  /\ stats.urls_crawled = 1
  /\ stats.urls_enqueued = 2
  /\ Len(crawl_queue) = 1
  /\ crawl_queue[1].depth = MaxDepthCfg

\* C5: a lease that returns an item returns one whose score is the lowest
\* among the queued items whose host's bucket would admit a request then.
C5_LeaseReturnsLowestAdmissible ==
  [][(Lease /\ ret' # None) =>
       \A i \in 1..Len(crawl_queue) :
         WouldAdmit(crawl_queue[i]) =>
           ret'.priority_score <= crawl_queue[i].priority_score]_vars

\* C6: of two items both queued when the first of them was leased, neither
\* ever refused by its host's bucket, the one leased first has the lower or
\* the same score.
C6_LeaseOrderFollowsScore ==
  \A i, j \in 1..Len(leases) :
    ( /\ i < j
      /\ leases[j].item.canonical_id \in leases[i].queued
      /\ leases[i].item.canonical_id \notin denied
      /\ leases[j].item.canonical_id \notin denied )
    => leases[i].item.priority_score <= leases[j].item.priority_score

\* C7: when no bucket has refused a request, the items leased come in
\* ascending score order, each before every item queued with it.
C7_AscendingWhenAdmitted ==
  denied = {} =>
    \A i, j \in 1..Len(leases) :
      (i < j /\ leases[j].item.canonical_id \in leases[i].queued)
      => leases[i].item.priority_score <= leases[j].item.priority_score

\* two leases, nothing refused, of two items of different scores queued
\* together
C7_Witness ==
  /\ denied = {}
  /\ Len(leases) = 2
  /\ leases[2].item.canonical_id \in leases[1].queued
  /\ leases[1].item.priority_score < leases[2].item.priority_score

\* C8: a lease returns None only when no queued item's host would admit a
\* request; otherwise it returns a queued item whose host admits, and every
\* other item, the blocked ones among them, stays queued.
C8_LeaseSkipsBlockedHosts ==
  [][Lease =>
       /\ ret' = None =>
            \A i \in 1..Len(crawl_queue) : ~WouldAdmit(crawl_queue[i])
       /\ ret' # None =>
            /\ ret'.canonical_id \in QueuedIds(crawl_queue)
            /\ WouldAdmit(ret')
            /\ QueuedIds(crawl_queue') =
                 QueuedIds(crawl_queue) \ {ret'.canonical_id}
            /\ Len(crawl_queue') = Len(crawl_queue) - 1]_vars

\* the last lease returned an item of a higher score than a queued item that
\* was refused and is still blocked
C8_Witness ==
  /\ leases # <<>>
  /\ ret = leases[Len(leases)].item
  /\ ret \in in_flight
  /\ \E i \in 1..Len(crawl_queue) :
       /\ crawl_queue[i].canonical_id \in denied
       /\ crawl_queue[i].priority_score < ret.priority_score
       /\ ~WouldAdmit(crawl_queue[i])

\* C9: a completion carrying a non-empty content hash that an earlier
\* completion carried enqueues none of its outlinks: the queue and the seen
\* set stay as they were.
C9_DuplicateContentEnqueuesNothing ==
  [][\A item \in in_flight, content_hash \in ContentHashes \ {""},
        outlinks \in OutlinkLists :
       (content_hash \in completed_hashes
          /\ OnCompleted(item, content_hash, outlinks))
       => (crawl_queue' = crawl_queue /\ seen_urls' = seen_urls)]_vars

\* C10: for a bucket of capacity 1 and rate r, the first call is admitted; a
\* call less than 1/r after the last admitted call is refused, a call at
\* least 1/r after it is admitted; the counters of admitted and refused calls
\* count those outcomes.
C10_CapacityOneBucket ==
  [][(AllowCall /\ tb.capacity = 1) =>
       /\ ops = 0 => tb_ret'
       /\ tb_last_admit >= 0 =>
            (tb_ret' <=> (now - tb_last_admit) * tb.num >= tb.den)
       /\ impl = "enhanced" =>
            /\ tb'.requests_made =
                 tb.requests_made + (IF tb_ret' THEN 1 ELSE 0)
            /\ tb'.requests_denied =
                 tb.requests_denied + (IF tb_ret' THEN 0 ELSE 1)]_vars

\* a capacity-1 bucket that admitted, refused, and admitted again once 1/r
\* had passed
C10_Witness ==
  /\ impl = "enhanced"
  /\ tb.capacity = 1
  /\ ops = 3
  /\ tb_ret = TRUE
  /\ tb_last_admit = now
  /\ tb.requests_made = 2
  /\ tb.requests_denied = 1


---------------------------------------------------------------------------
(* The token bucket's state *)

\* the time of a bucket's last refill: last_update / ts
LastRefill(b) == IF impl = "documented" THEN b.last_update ELSE b.ts

\* min(capacity, tokens + elapsed * rate) at time t, in units of 1/den
Refilled(b, t) ==
  LET sum == b.tokens + (t - LastRefill(b)) * b.num
  IN SetMin({sum, b.capacity * b.den})

\* a step that is one call of allow_request() / allow() on the bucket
BucketCall == tb # None /\ ops' = ops + 1

\* 0 <= tokens <= capacity
TokensInRange == tb # None => (0 <= tb.tokens /\ tb.tokens <= tb.capacity * tb.den)

\* C11: after any calls at non-decreasing clock values 0 <= tokens <=
\* capacity; an admitted call leaves the refilled value minus exactly one
\* token, a denied call leaves the refilled value, and either leaves the time
\* of the last refill equal to the time of the call.
C11_BucketState ==
  /\ []TokensInRange
  /\ [][BucketCall =>
          /\ LastRefill(tb') = now
          /\ tb_ret' = (Refilled(tb, now) >= tb.den)
          /\ tb'.tokens = IF tb_ret' THEN Refilled(tb, now) - tb.den
                          ELSE Refilled(tb, now)]_vars

\* a denied call at a later time than the last one, which kept the part of a
\* token the refill added
C11_Witness ==
  /\ ops > 0
  /\ ~tb_ret
  /\ tb.tokens > 0
  /\ LastRefill(tb) = now
  /\ now > 0

---------------------------------------------------------------------------
(* canonicalize on its own *)

\* "http://", "HTTP://", "//" and no scheme
CanonSchemes ==
  { <<104,116,116,112,58,47,47>>,
    <<72,84,84,80,58,47,47>>,
    <<47,47>>,
    <<>> }

\* "a.example", "A.Example"
CanonHosts ==
  { <<97,46,101,120,97,109,112,108,101>>,
    <<65,46,69,120,97,109,112,108,101>> }

\* no port, ":80"
CanonPorts ==
  { <<>>,
    <<58,56,48>> }

\* "/x", "/x/"
CanonPaths ==
  { <<47,120>>,
    <<47,120,47>> }

\* "?a=1&b=2", "?b=2&a=1", "?utm_source=q&a=1&b=2",
\* "?a=1&gclid=7&b=2", "?a=1&b=2&gclid_src=7"
CanonQueries ==
  { <<63,97,61,49,38,98,61,50>>,
    <<63,98,61,50,38,97,61,49>>,
    <<63,117,116,109,95,115,111,117,114,99,101,61,113,38,97,61,49,38,98,61,50>>,
    <<63,97,61,49,38,103,99,108,105,100,61,55,38,98,61,50>>,
    <<63,97,61,49,38,98,61,50,38,103,99,108,105,100,95,115,114,99,61,55>> }

\* no fragment, "#top"
CanonFragments ==
  { <<>>,
    <<35,116,111,112>> }

\* the spellings of one page: raw URLs that differ in scheme (absent, or in
\* either case), case of the host, explicit default port, trailing slash,
\* fragment, tracking parameters and order of the query parameters
Spellings ==
  {s \o h \o p \o pa \o q \o f :
     s \in CanonSchemes, h \in CanonHosts, p \in CanonPorts,
     pa \in CanonPaths, q \in CanonQueries, f \in CanonFragments}

\* "http://a.example/x/?a=1&b=2"
SpellingBase ==
  <<104,116,116,112,58,47,47,97,46,101,120,97,109,112,108,101,47,120,47,63,97,61,49,38,98,61,50>>

\* "HTTPS://Example.COM:443/path?utm_source=x&id=123"
ReferenceUpper ==
  <<72,84,84,80,83,58,47,47,69,120,97,109,112,108,101,46,67,79,77,58,52,52,51,47,112,97,116,104,63,117,116,109,95,115,111,117,114,99,101,61,120,38,105,100,61,49,50,51>>

\* "https://example.com/path?id=123"
ReferenceLower ==
  <<104,116,116,112,115,58,47,47,101,120,97,109,112,108,101,46,99,111,109,47,112,97,116,104,63,105,100,61,49,50,51>>

\* "https://example.com/path?id=123"
ReferenceNormalized ==
  <<104,116,116,112,115,58,47,47,101,120,97,109,112,108,101,46,99,111,109,47,112,97,116,104,63,105,100,61,49,50,51>>

\* the pairs of raw URLs canonicalize is called with
CanonPairs ==
  {<<ReferenceUpper, ReferenceLower>>}
    \cup {<<SpellingBase, v>> : v \in Spellings}
    \cup {<<u, u>> : u \in OtherUrls}

\* canonicalize(raw) of the service in use
CanonicalizeOf(raw) ==
  IF impl = "documented" THEN canonicalize(raw) ELSE canonicalizeE(raw)

\* canonicalize(normalized_url) of a result canonicalize returned
CanonicalizeAgain(result) ==
  IF result.ok THEN CanonicalizeOf(result.normalized_url) ELSE result

frontierAndBucketVars ==
  <<impl, crawl_queue, seen_urls, content_hashes, rate_limiters, stats, now,
    in_flight, ret, ops, denied, leases, enqueue_calls, completed_hashes, tb,
    tb_ret, tb_last_admit, canonical, scored, tasks, crawler>>

\* canonicalize is called directly, no frontier call is made: the table of
\* the frontier's calls is empty
InitCanon ==
  /\ InitFrontier
  /\ canonical = CanonicalTable({})
  /\ tb = None
  /\ tb_ret = None
  /\ tb_last_admit = -1
  /\ crawler = None
  /\ scored = None
  /\ tasks = None
  /\ \E pair \in CanonPairs :
       cn = [raw |-> pair, stage |-> "raw", out |-> <<>>, again |-> <<>>]

\* canonicalize(u), canonicalize(v)
Canonicalize ==
  /\ cn.stage = "raw"
  /\ cn' = [cn EXCEPT !.stage = "once",
                      !.out = [i \in 1..2 |-> CanonicalizeOf(cn.raw[i])]]
  /\ UNCHANGED frontierAndBucketVars

\* canonicalize of the normalized URLs the first calls returned
Recanonicalize ==
  /\ cn.stage = "once"
  /\ cn' = [cn EXCEPT !.stage = "twice",
                      !.again = [i \in 1..2 |-> CanonicalizeAgain(cn.out[i])]]
  /\ UNCHANGED frontierAndBucketVars

NextCanon == Canonicalize \/ Recanonicalize

SpecCanon == InitCanon /\ [][NextCanon]_vars

\* C12: canonicalize of "HTTPS://Example.COM:443/path?utm_source=x&id=123" and
\* of "https://example.com/path?id=123" return the same canonical id, and both
\* return the normalized URL "https://example.com/path?id=123".
C12_ReferencePair ==
  (cn.raw = <<ReferenceUpper, ReferenceLower>> /\ cn.stage # "raw") =>
    /\ cn.out[1].ok /\ cn.out[2].ok
    /\ cn.out[1].canonical_id = cn.out[2].canonical_id
    /\ cn.out[1].normalized_url = ReferenceNormalized
    /\ cn.out[2].normalized_url = ReferenceNormalized

\* C13: two raw URLs that differ only in the normalized dimensions (absent
\* scheme or explicit http, case of scheme and host, explicit default port,
\* missing trailing slash on an extensionless path, fragment, tracking
\* parameters, order of the other parameters) get the same canonical id.
C13_SpellingsShareId ==
  (cn.raw[1] = SpellingBase /\ cn.raw[2] \in Spellings /\ cn.stage # "raw") =>
    /\ cn.out[1].ok /\ cn.out[2].ok
    /\ cn.out[1].canonical_id = cn.out[2].canonical_id

\* C14: for every raw URL canonicalize accepts, with (id, n) its result,
\* canonicalize(n) returns (id, n) again.
C14_Idempotent ==
  cn.stage = "twice" =>
    \A i \in 1..2 : cn.out[i].ok => cn.again[i] = cn.out[i]

---------------------------------------------------------------------------
(* Malformed input *)

\* what a client hands to enqueue: a page, a port that is no number, and
\* strings without a host
MalformedInputs == {UrlRoot, UrlBadPort, UrlNoHost, UrlEmptyHost}

\* a client that enqueues well-formed and malformed strings and leases;
\* MaxMalformedOps calls
NextMalformed ==
  \/ /\ ops < MaxMalformedOps
     /\ \/ \E url \in MalformedInputs, depth \in Depths :
             EnqueueUrl(url, depth, 100)
        \/ \E url \in MalformedInputs, depth \in Depths : Enqueue(url, depth)
        \/ Lease
  \/ Tick

\* a frontier just constructed, whose client knows the malformed strings
InitMalformed ==
  /\ InitFrontier
  /\ canonical = CanonicalTable(MalformedInputs \cup NoHostUrls)
  /\ tb = None
  /\ tb_ret = None
  /\ tb_last_admit = -1
  /\ cn = None
  /\ scored = None
  /\ tasks = None
  /\ crawler = None

SpecMalformed == InitMalformed /\ [][NextMalformed]_vars

\* what canonicalize of the running service gave for url
CanonicalOf(url) ==
  IF impl = "documented" THEN canonical.documented[url]
  ELSE canonical.enhanced[url]

\* the host an item is queued under when its URL has none:
\* parsed.hostname or "unknown" / urlsplit(norm).hostname or ""
HostFallback ==
  IF impl = "documented" THEN <<117,110,107,110,111,119,110>> ELSE <<>>

\* C15: canonicalize of a raw string from which no host can be parsed fails
\* with an error, and enqueue of such a string returns rejection without
\* adding anything to the seen set, the queue or the rate limiters.
C15_NoHostFailsClosed ==
  [][\A u \in MalformedInputs \cap NoHostUrls, d \in Depths :
       EnqueueCall(u, d) =>
         /\ ~CanonicalOf(u).ok
         /\ ret' = None
         /\ UNCHANGED <<seen_urls, crawl_queue, rate_limiters>>]_vars

\* C15, amended: canonicalize of a raw string whose port is no number fails
\* with an error, and enqueue of such a string returns None and leaves the
\* seen set, the queue, the rate limiters and the counters as they were, so
\* that later calls go as if it had not been made; a string without a host
\* is no error: within the depth ceiling and unseen it is admitted, under
\* the host "unknown" (documented) or "" (enhanced).
C15_RaisingInputFailsClosed ==
  /\ [](~CanonicalOf(UrlBadPort).ok /\ \A u \in NoHostUrls : CanonicalOf(u).ok)
  /\ [][\A u \in MalformedInputs, d \in Depths :
          EnqueueCall(u, d) =>
            /\ ~CanonicalOf(u).ok =>
                 /\ ret' = None
                 /\ UNCHANGED <<seen_urls, crawl_queue, rate_limiters,
                                content_hashes, stats>>
            /\ (u \in NoHostUrls /\ d <= MaxDepthCfg /\ Cid(u) \notin seen_urls) =>
                 /\ ret' # None
                 /\ ret'.hostname = HostFallback
                 /\ Cid(u) \in seen_urls'
                 /\ HostFallback \in DOMAIN rate_limiters']_vars

\* the string with the bad port was handed in and rejected, and a later call
\* returned the page's item from a lease
C15_Witness ==
  /\ \E c \in enqueue_calls : c.url = UrlBadPort
  /\ seen_urls = {Cid(UrlRoot)}
  /\ leases # <<>>
  /\ ret # None
  /\ ret \in in_flight

---------------------------------------------------------------------------
(* The orchestrator: EnhancedWebCrawler.crawl / stop, run_web_crawler_demo *)

\* a loop condition that takes one item too many
LoopOverBudget(running, crawled_count, max_urls) ==
  running /\ crawled_count <= max_urls

\* a loop condition that does not look at the stop flag
LoopIgnoresStop(running, crawled_count, max_urls) == crawled_count < max_urls

\* while self.running and crawled_count < self.config.max_urls
LoopContinues(running, crawled_count, max_urls) ==
  running /\ crawled_count < max_urls

\* while crawled_count < max_urls (run_web_crawler_demo)
DemoLoopContinues(crawled_count, max_urls) == crawled_count < max_urls

\* a semaphore whose permits are never handed out
SemaphoreNeverFree(permits) == FALSE

\* a semaphore that never makes its caller wait
SemaphoreAlwaysFree(permits) == TRUE

\* asyncio.Semaphore: acquire() returns at once when the value is positive
SemaphoreFree(permits) == permits > 0

\* the seeds crawl() is called with: two pages of two hosts, one of them
\* spelled twice
CrawlSeeds == <<UrlRoot, UrlRootSpelled, UrlP>>

\* urlparse.urlsplit(fetch_result["url"]).hostname or "example.com"
BaseHost(item) ==
  LET raws == {r \in DOMAIN canonical.hostname :
                 canonical.documented[r].normalized_url = item.url}
      host == canonical.hostname[CHOOSE r \in raws : TRUE]
  IN IF host # <<>> THEN host
     ELSE <<101,120,97,109,112,108,101,46,99,111,109>>        \* "example.com"

\* hashlib.md5(fetch_result["html_content"].encode()).hexdigest(): the
\* content names the page's URL, so pages differ in it as they do in their id
DemoContentHash(item) == "md5:" \o ToString(item.canonical_id)

\* a crawler just constructed, configured with max_urls and max_concurrent
CrawlerInit(max_urls, max_concurrent) ==
  [pc |-> "start", running |-> FALSE, max_urls |-> max_urls,
   max_concurrent |-> max_concurrent, permits |-> max_concurrent,
   crawled_count |-> 0, item |-> None, fetching |-> {},
   last_fetch |-> "", on_parsed_calls |-> 0, lease_calls |-> 0,
   stopped |-> FALSE, stopped_at |-> ""]

InitOrch ==
  /\ InitFrontier
  /\ canonical = CanonicalTable(IF impl = "documented" THEN DemoUrls ELSE Urls)
  /\ tb = None
  /\ tb_ret = None
  /\ tb_last_admit = -1
  /\ cn = None
  /\ scored = None
  /\ tasks = None
  /\ \E max_urls \in 0..MaxUrlsCfg, max_concurrent \in 0..MaxConcurrentCfg :
       /\ impl = "documented" => max_concurrent = 1
       /\ crawler = CrawlerInit(max_urls, max_concurrent)

\* what no step of the orchestrator changes
orchFixed ==
  <<impl, now, ops, tb, tb_ret, tb_last_admit, canonical, cn, scored, tasks>>

\* crawl(seed_urls) up to the loop: self.running = True, the seeds enqueued at
\* depth 0, the semaphore created
StartCrawl ==
  /\ crawler.pc = "start"
  /\ Becomes(IF impl = "documented"
             THEN EnqueueAllD(Frontier, MaxDepthCfg, now, DemoSeeds, 0)
             ELSE EnqueueAllE(Frontier, MaxDepthCfg, now, CrawlSeeds, 0))
  /\ crawler' = [crawler EXCEPT !.pc = "loop", !.running = (impl = "enhanced"),
                                !.permits = crawler.max_concurrent]
  /\ enqueue_calls' = enqueue_calls \cup
       {[url |-> u, deep |-> FALSE] :
          u \in IF impl = "documented" THEN {DemoSeeds[i] : i \in 1..3}
                ELSE {CrawlSeeds[i] : i \in 1..3}}
  /\ UNCHANGED <<in_flight, ret, leases, denied, completed_hashes>>
  /\ UNCHANGED orchFixed

\* a loop that also ends when the queue is empty
ContinuesWhileQueued ==
  /\ crawl_queue # <<>>
  /\ IF impl = "documented"
     THEN DemoLoopContinues(crawler.crawled_count, crawler.max_urls)
     ELSE LoopContinues(crawler.running, crawler.crawled_count,
                        crawler.max_urls)

\* the loop's condition as the running service states it
Continues ==
  IF impl = "documented"
  THEN DemoLoopContinues(crawler.crawled_count, crawler.max_urls)
  ELSE LoopContinues(crawler.running, crawler.crawled_count, crawler.max_urls)

\* item = await self.frontier.lease(), and what follows it up to the next
\* suspension: the sleep when nothing was leased, else the semaphore's
\* acquire and the start of the fetch
LoopLeaseBody ==
  /\ crawler.pc = "loop"
  /\ Continues
  /\ LET r == IF impl = "documented" THEN get_next_crawl_item(Frontier, now)
              ELSE lease(Frontier, now)
         free == impl = "documented" \/ SemaphoreFree(crawler.permits)
     IN /\ Becomes(r.F)
        /\ ret' = r.ret
        /\ in_flight' = IF r.ret = None THEN in_flight ELSE in_flight \cup {r.ret}
        /\ denied' = denied \cup ScanDenied(crawl_queue, r.ret)
        /\ leases' = IF r.ret = None THEN leases
                     ELSE Append(leases, [item |-> r.ret,
                                          queued |-> QueuedIds(r.F.crawl_queue)])
        /\ crawler' =
             IF r.ret = None
             THEN [crawler EXCEPT !.pc = "sleep", !.lease_calls = @ + 1]
             ELSE IF free
               THEN [crawler EXCEPT
                       !.pc = "fetch", !.item = r.ret, !.lease_calls = @ + 1,
                       !.permits = IF impl = "documented" THEN @ ELSE @ - 1,
                       !.fetching = @ \cup {r.ret}]
             ELSE [crawler EXCEPT !.pc = "acquire", !.item = r.ret,
                                  !.lease_calls = @ + 1]
  /\ UNCHANGED <<enqueue_calls, completed_hashes>>
  /\ UNCHANGED orchFixed

\* the model lets a crawl call lease MaxOrchLeases times
LoopLease == crawler.lease_calls < MaxOrchLeases /\ LoopLeaseBody

\* the loop's condition is false: crawl() / the demo's loop returns
LoopExit ==
  /\ crawler.pc = "loop"
  /\ ~Continues
  /\ crawler' = [crawler EXCEPT !.pc = "done"]
  /\ UNCHANGED <<crawl_queue, seen_urls, content_hashes, rate_limiters, stats,
                 in_flight, ret, leases, denied, enqueue_calls,
                 completed_hashes>>
  /\ UNCHANGED orchFixed

\* await asyncio.sleep(...) returns: the idle wait, or the demo's pause after
\* an item
SleepReturns ==
  /\ crawler.pc \in {"sleep", "pause"}
  /\ crawler' = [crawler EXCEPT !.pc = "loop"]
  /\ UNCHANGED <<crawl_queue, seen_urls, content_hashes, rate_limiters, stats,
                 in_flight, ret, leases, denied, enqueue_calls,
                 completed_hashes>>
  /\ UNCHANGED orchFixed

\* HTTPFetcher.fetch followed by ContentParser.parse.  fetched is "failed" (the
\* request raised: status_code 0, content ''), "empty" (a response whose body
\* is empty, or on which the parser raises) or "page"; of the first two parse
\* makes _empty_result: content_hash '' and no outlinks
FetchAndParse(item, fetched, outlinks) ==
  ParseResult(item, IF fetched = "page" THEN "h1" ELSE "",
              IF fetched = "page" THEN outlinks ELSE <<>>)

\* EnhancedWebCrawler._process_item from the return of fetcher.fetch on, then
\* crawled_count += 1 and the semaphore's release.  db_ok: save_crawl_result
\* returns (else sqlite3 raises in on_parsed, after the outlinks' enqueue)
ProcessItem(fetched, outlinks, db_ok) ==
  /\ impl = "enhanced"
  /\ crawler.pc = "fetch"
  /\ LET item == crawler.item
         doc == FetchAndParse(item, fetched, outlinks)
         enqueued == EnqueueAllE(Frontier, MaxDepthCfg, now, doc.outlinks,
                                 doc.depth + 1)
     IN /\ Becomes(IF db_ok THEN on_parsed(Frontier, MaxDepthCfg, now, doc)
                   ELSE [enqueued EXCEPT !.stats.urls_failed = @ + 1])
        /\ in_flight' = in_flight \ {item}
        /\ enqueue_calls' = enqueue_calls
                              \cup LinkCalls(item, doc.content_hash, doc.outlinks)
        /\ completed_hashes' = completed_hashes \cup ({doc.content_hash} \ {""})
        /\ crawler' = [crawler EXCEPT
                         !.pc = "loop", !.item = None,
                         !.fetching = @ \ {item},
                         !.permits = @ + 1,
                         !.crawled_count = @ + 1,
                         !.on_parsed_calls = @ + 1,
                         !.last_fetch = IF fetched = "failed" THEN "failed"
                                        ELSE "ok"]
  /\ ret' = None
  /\ UNCHANGED <<leases, denied>>
  /\ UNCHANGED orchFixed

\* simulate_fetcher_service's sleep returns and the demo awaits
\* simulate_parser_service, which sleeps in its turn
DemoFetchReturns ==
  /\ impl = "documented"
  /\ crawler.pc = "fetch"
  /\ crawler' = [crawler EXCEPT !.pc = "parse"]
  /\ UNCHANGED <<crawl_queue, seen_urls, content_hashes, rate_limiters, stats,
                 in_flight, ret, leases, denied, enqueue_calls,
                 completed_hashes>>
  /\ UNCHANGED orchFixed

\* the demo's try block from the return of simulate_parser_service's sleep
\* on: the page's outlinks, process_crawled_content, crawled_count += 1
DemoProcessItem ==
  /\ impl = "documented"
  /\ crawler.pc = "parse"
  /\ LET item == crawler.item
         outlinks == SimulatedOutlinks(BaseHost(item))
         doc == ParseResult(item, DemoContentHash(item), outlinks)
     IN /\ Becomes(process_crawled_content(Frontier, MaxDepthCfg, now, doc))
        /\ in_flight' = in_flight \ {item}
        /\ enqueue_calls' = enqueue_calls
                              \cup LinkCalls(item, doc.content_hash, outlinks)
        /\ completed_hashes' = completed_hashes \cup {doc.content_hash}
        /\ crawler' = [crawler EXCEPT
                         !.pc = "pause", !.item = None,
                         !.fetching = @ \ {item},
                         !.crawled_count = @ + 1,
                         !.on_parsed_calls = @ + 1,
                         !.last_fetch = "ok"]
  /\ ret' = None
  /\ UNCHANGED <<leases, denied>>
  /\ UNCHANGED orchFixed

\* EnhancedWebCrawler.stop(), called by another task while crawl() is
\* suspended (asleep, awaiting the fetch or the semaphore) or has returned
Stop ==
  /\ impl = "enhanced"
  /\ crawler.pc \in {"sleep", "fetch", "acquire", "done"}
  /\ crawler' = [crawler EXCEPT
                   !.running = FALSE,
                   !.stopped = @ \/ crawler.pc # "done",
                   !.stopped_at = IF crawler.pc # "done" /\ ~crawler.stopped
                                  THEN crawler.pc ELSE @]
  /\ UNCHANGED <<crawl_queue, seen_urls, content_hashes, rate_limiters, stats,
                 in_flight, ret, leases, denied, enqueue_calls,
                 completed_hashes>>
  /\ UNCHANGED orchFixed

\* _process_item returns, whatever the fetch, the page and the database did
ItemProcessed ==
  \E fetched \in {"failed", "empty", "page"}, outlinks \in OutlinkLists,
     db_ok \in BOOLEAN :
    ProcessItem(fetched, outlinks, db_ok)

\* the steps of crawl() and of the demo's loop
CrawlStep ==
  \/ StartCrawl
  \/ LoopLease
  \/ LoopExit
  \/ SleepReturns
  \/ ItemProcessed
  \/ DemoFetchReturns
  \/ DemoProcessItem

NextOrch ==
  \/ CrawlStep
  \/ Stop
  \/ Tick

SpecOrch == InitOrch /\ [][NextOrch]_vars

\* the event loop resumes crawl() where it is suspended: a sleep ends, a
\* fetch returns within HTTPFetcher's ClientTimeout, and a loop whose
\* condition is false ends
SpecOrchFair ==
  /\ SpecOrch
  /\ WF_vars(SleepReturns)
  /\ WF_vars(ItemProcessed)
  /\ WF_vars(LoopExit)

---------------------------------------------------------------------------
(* The orchestrator's accounting *)

\* the step in which the fetch of the leased item has failed and
\* _process_item has run to its end
FailedFetchStep ==
  /\ crawler.pc = "fetch"
  /\ crawler'.pc = "loop"
  /\ crawler'.last_fetch = "failed"

\* C16: a leased item whose fetch fails is counted as failed: the failed
\* counter increases by one, the crawled counter does not increase, and
\* on_parsed is not applied to the item.
C16_FailedFetchCounted ==
  [][FailedFetchStep =>
       /\ stats'.urls_failed = stats.urls_failed + 1
       /\ stats'.urls_crawled = stats.urls_crawled
       /\ crawler'.on_parsed_calls = crawler.on_parsed_calls]_vars

\* C17: once an item has been leased, no item with its canonical id is in the
\* queue again, whether its processing succeeded or failed; hence every
\* canonical id is leased at most once.
C17_LeasedNeverRequeued ==
  /\ \A i \in 1..Len(leases) :
       leases[i].item.canonical_id \notin QueuedIds(crawl_queue)
  /\ \A i, j \in 1..Len(leases) :
       i # j => leases[i].item.canonical_id # leases[j].item.canonical_id

\* both seeded pages have been leased and processed, one of them has failed,
\* and the one outlink the second carried was turned down as a duplicate of a
\* leased page
C17_Witness ==
  /\ Len(leases) = 2
  /\ crawler.crawled_count = 2
  /\ stats.urls_failed >= 1
  /\ stats.urls_enqueued = 2
  /\ stats.urls_deduplicated = 3

\* C18: at every moment of a crawl the number of leased items whose fetch and
\* parse has started and has neither completed nor failed is at most
\* max_concurrent; the semaphore holds the permits not in use.
C18_ConcurrencyBound ==
  impl = "enhanced" =>
    /\ Cardinality(crawler.fetching) <= crawler.max_concurrent
    /\ crawler.permits = crawler.max_concurrent - Cardinality(crawler.fetching)

\* a fetch is under way and has taken the only permit
C18_Witness ==
  /\ impl = "enhanced"
  /\ crawler.pc = "fetch"
  /\ crawler.max_concurrent = 1
  /\ Cardinality(crawler.fetching) = 1
  /\ crawler.permits = 0

\* the items the orchestrator has finished: completed plus failed
Finished == stats.urls_crawled + stats.urls_failed

\* C19: the number of items the orchestrator has finished (completed plus
\* failed) never exceeds max_urls; once it equals max_urls, no further lease
\* is performed and the crawl loop returns.
C19_BudgetTermination ==
  /\ [](crawler.pc # "start" =>
          /\ Finished = crawler.crawled_count
          /\ Finished <= crawler.max_urls)
  /\ [][(crawler.pc # "start" /\ Finished = crawler.max_urls) =>
          /\ crawler'.lease_calls = crawler.lease_calls
          /\ leases' = leases
          /\ (crawler.pc = "loop" /\ crawler' # crawler) => crawler'.pc = "done"
          /\ crawler.pc = "done" => crawler'.pc = "done"]_vars

\* the budget of two items is used up, one of them failed, and the loop has
\* returned with a page still queued
C19_Witness ==
  /\ crawler.pc = "done"
  /\ crawler.max_urls = 2
  /\ Finished = 2
  /\ stats.urls_failed = 1
  /\ crawler.running
  /\ crawl_queue # <<>>

\* stop() was called while crawl() was asleep for want of an item or awaiting
\* the fetch of one
StoppedWhileRunning ==
  crawler.stopped /\ crawler.stopped_at \in {"sleep", "fetch"}

\* C20: once stop() has been called while crawl() is running (idle-waiting or
\* with an item in flight), no further lease removes an item from the queue,
\* and crawl() returns after the in-flight work has drained.
C20_CooperativeStop ==
  /\ [][StoppedWhileRunning =>
          /\ leases' = leases
          /\ QueuedIds(crawl_queue) \subseteq QueuedIds(crawl_queue')
          /\ crawler'.lease_calls = crawler.lease_calls]_vars
  /\ [](StoppedWhileRunning /\ crawler.pc = "done" => crawler.fetching = {})
  /\ (StoppedWhileRunning ~> crawler.pc = "done")

\* stop() came during a fetch; the item was then processed and the loop
\* returned before its budget was used up, with a page still queued
C20_Witness ==
  /\ crawler.stopped
  /\ crawler.stopped_at = "fetch"
  /\ crawler.pc = "done"
  /\ crawler.crawled_count = 1
  /\ crawler.max_urls = 2
  /\ crawl_queue # <<>>

---------------------------------------------------------------------------
(* Leased items and what becomes of them *)

\* every lease so far is counted once, or is the item crawl() holds; when
\* crawl() has returned every lease is counted
LeasesAccounted ==
  crawler.pc # "start" =>
    /\ Len(leases) = Finished + (IF crawler.item = None THEN 0 ELSE 1)
    /\ crawler.pc = "done" => Len(leases) = Finished

\* C21: every item lease() returned to the orchestrator is eventually counted
\* exactly once, as crawled or as failed, also when stop() came while it was
\* in flight; when crawl() has returned, leases = crawled + failed.  (The
\* demo's loop cannot be stopped; for it the count alone is stated.)
C21_NoLeaseLost ==
  /\ []LeasesAccounted
  /\ \A n \in 1..MaxUrlsCfg :
       (impl = "enhanced" /\ Len(leases) >= n) ~> (Finished >= n)

\* C21 as amended: the same, for a crawl configured with max_concurrent >= 1.
C21_NoLeaseLostWithPermits ==
  /\ []LeasesAccounted
  /\ \A n \in 1..MaxUrlsCfg :
       (impl = "enhanced" /\ Len(leases) >= n /\ crawler.max_concurrent >= 1)
         ~> (Finished >= n)

\* stop() came while the only leased item was in flight; its processing
\* failed, it was counted as failed and crawl() returned
C21_Witness ==
  /\ crawler.stopped
  /\ crawler.stopped_at = "fetch"
  /\ crawler.pc = "done"
  /\ crawler.max_concurrent >= 1
  /\ Len(leases) = 1
  /\ stats.urls_failed = 1
  /\ stats.urls_crawled = 0

---------------------------------------------------------------------------
(* The end-to-end scenario: one seed, max_depth = 1 *)

\* the outlinks the seed's page carries: a new page of the seed's host and
\* the seed itself
SeedOutlinks == <<UrlX, UrlRoot>>

\* the lease call would return an item now
LeaseAdmits ==
  IF impl = "documented" THEN get_next_crawl_item(Frontier, now).ret # None
  ELSE lease(Frontier, now).ret # None

\* the test enqueues the seed at depth 0
ScenarioSeed == ops = 0 /\ EnqueueCall(UrlRoot, 0)

\* the test polls lease: as often as it likes when an item is admitted,
\* MaxScenarioPolls calls in all otherwise
ScenarioLease == (LeaseAdmits \/ ops < MaxScenarioPolls) /\ ops > 0 /\ Lease

\* the simulated fetch and parse of a leased item returns: SeedOutlinks for
\* the seed, any outlinks for the page found at depth 1
ScenarioComplete ==
  \E item \in in_flight, content_hash \in ContentHashes :
    IF item.depth = 0 THEN OnCompleted(item, content_hash, SeedOutlinks)
    ELSE \E outlinks \in OutlinkLists : OnCompleted(item, content_hash, outlinks)

\* the clock advances: up to MaxTime, and beyond it while a queued item waits
\* for its host's bucket
ScenarioTick ==
  /\ now < MaxTime \/ (crawl_queue # <<>> /\ ~LeaseAdmits)
  /\ now' = now + 1
  /\ UNCHANGED <<impl, crawl_queue, seen_urls, content_hashes, rate_limiters,
                 stats, in_flight, ret, ops, denied, leases, enqueue_calls,
                 completed_hashes, tb, tb_ret, tb_last_admit, canonical, cn,
                 scored, tasks, crawler>>

NextScenario ==
  \/ ScenarioSeed
  \/ ScenarioLease
  \/ ScenarioComplete
  \/ ScenarioTick

SpecScenario == Init /\ [][NextScenario]_vars

\* time advances and the test goes on polling
SpecScenarioFair ==
  SpecScenario /\ WF_vars(ScenarioTick) /\ WF_vars(ScenarioLease)

\* the leases so far of the page url
LeasesOf(url) ==
  {i \in 1..Len(leases) : leases[i].item.canonical_id = Cid(url)}

\* the queued items of the page url
QueuedOf(url) ==
  {i \in 1..Len(crawl_queue) : crawl_queue[i].canonical_id = Cid(url)}

\* C22: with seed https://a.example/ and max_depth = 1, when the seed's result
\* carries the outlinks https://a.example/x and https://a.example/, then
\* https://a.example/x is enqueued exactly once, at depth 1, and is eventually
\* leased; the self-link is rejected as a duplicate; and a link discovered
\* from the depth-1 page is rejected and enters neither the queue nor the
\* seen set.
C22_EndToEnd ==
  /\ []((MaxDepthCfg = 1 /\ stats.urls_crawled >= 1) =>
          /\ Cardinality(QueuedOf(UrlX)) + Cardinality(LeasesOf(UrlX)) = 1
          /\ \A i \in QueuedOf(UrlX) : crawl_queue[i].depth = 1
          /\ \A i \in LeasesOf(UrlX) : leases[i].item.depth = 1
          /\ QueuedOf(UrlRoot) = {}
          /\ Cardinality(LeasesOf(UrlRoot)) = 1
          /\ stats.urls_deduplicated >= 1
          /\ stats.urls_enqueued = 2)
  /\ [](MaxDepthCfg = 1 =>
          /\ seen_urls \subseteq {Cid(UrlRoot), Cid(UrlX)}
          /\ QueuedIds(crawl_queue) \subseteq {Cid(UrlRoot), Cid(UrlX)}
          /\ stats.urls_enqueued <= 2)
  /\ (QueuedOf(UrlX) # {}) ~> (LeasesOf(UrlX) # {})

\* the page found at depth 1 has been leased and completed with a link to a
\* page of another host, which was turned down
C22_Witness ==
  /\ Len(leases) = 2
  /\ leases[2].item.canonical_id = Cid(UrlX)
  /\ in_flight = {}
  /\ [url |-> UrlP, deep |-> TRUE] \in enqueue_calls
  /\ stats.urls_enqueued = 2
  /\ seen_urls = {Cid(UrlRoot), Cid(UrlX)}

----------------------------------------------------------------------------
(* The score functions on their own *)

\* freshness and host importance, in hundredths
ScoreFactors == {0, 25, 50, 75, 100}

\* the default of freshness, host_importance and host_budget: 1.0
DefaultFactor == 100

ScoreDepths == 0..MaxScoreDepth

\* the priority of an item: calculate_priority_score(...) in the documented
\* service, 1.0 - self.score(...) in the enhanced one
priority_score(service, depth, freshness, host_importance) ==
  IF service = "documented"
    THEN calculate_priority_score(depth, freshness, host_importance)
    ELSE ScoreScale - score(depth, freshness, host_importance)

InitScore ==
  /\ InitFrontier
  /\ canonical = CanonicalTable({})
  /\ tb = None
  /\ tb_ret = None
  /\ tb_last_admit = -1
  /\ cn = None
  /\ crawler = None
  /\ tasks = None
  /\ scored = <<>>

\* one call; the model keeps this call and the one before it
ScoreCall(depth, freshness, host_importance) ==
  /\ scored' = (IF scored = <<>> THEN <<>> ELSE <<scored[Len(scored)]>>)
                 \o <<[depth |-> depth, freshness |-> freshness,
                       host_importance |-> host_importance,
                       value |-> priority_score(impl, depth, freshness,
                                                host_importance)]>>
  /\ UNCHANGED <<impl, crawl_queue, seen_urls, content_hashes, rate_limiters,
                 stats, now, in_flight, ret, ops, denied, leases,
                 enqueue_calls, completed_hashes, tb, tb_ret, tb_last_admit,
                 canonical, cn, tasks, crawler>>

NextScore ==
  \E depth \in ScoreDepths, freshness \in ScoreFactors,
     host_importance \in ScoreFactors :
    ScoreCall(depth, freshness, host_importance)

SpecScore == InitScore /\ [][NextScore]_vars

\* the call made with the defaults of freshness and host importance
WithDefaults(call) ==
  call.freshness = DefaultFactor /\ call.host_importance = DefaultFactor

\* C23: every call returns 1 - (0.6/(1+depth) + 0.25*freshness +
\* 0.15*hostImportance) (the equation is multiplied by 10000*(1+depth), the
\* factors being hundredths and the value a multiple of 1/ScoreScale); with
\* the defaults the value is 0 at depth 0; and of two calls with the defaults
\* the one with the smaller depth returned the strictly smaller score.
C23_PriorityScore ==
  /\ \A i \in 1..Len(scored) :
       LET call == scored[i] IN
         /\ 10000 * (1 + call.depth) * call.value
              = ScoreScale * (10000 * (1 + call.depth)
                              - (6000 + (1 + call.depth)
                                   * (25 * call.freshness
                                      + 15 * call.host_importance)))
         /\ (WithDefaults(call) /\ call.depth = 0) => call.value = 0
  /\ \A i, j \in 1..Len(scored) :
       (WithDefaults(scored[i]) /\ WithDefaults(scored[j])
        /\ scored[i].depth < scored[j].depth)
         => scored[i].value < scored[j].value

\* a call at depth 0 and then one at depth 2, both with the defaults
C23_Witness ==
  /\ Len(scored) = 2
  /\ WithDefaults(scored[1]) /\ scored[1].depth = 0 /\ scored[1].value = 0
  /\ WithDefaults(scored[2]) /\ scored[2].depth = 2 /\ scored[2].value > 0

----------------------------------------------------------------------------
(* Dispatch of the leased items *)

\* one fetch is in flight under a bound of two or more, the loop has neither
\* been stopped nor used up its budget, and an item of another host is queued
\* whose bucket admits
SecondItemAdmissible ==
  /\ crawler.pc # "start"
  /\ crawler.max_concurrent >= 2
  /\ crawler.running
  /\ Cardinality(crawler.fetching) = 1
  /\ crawler.crawled_count + 1 < crawler.max_urls
  /\ \E i \in 1..Len(crawl_queue) :
       /\ \A it \in crawler.fetching : it.hostname # crawl_queue[i].hostname
       /\ WouldAdmit(crawl_queue[i])

\* C24: with a concurrency bound of two or more, one fetch in flight and a
\* queued item of another host whose bucket admits, the loop leases the
\* second item before the first has completed: the next step that changes
\* the set of fetches in flight makes it two, it does not empty it.
C24_ParallelDispatch ==
  [][(SecondItemAdmissible /\ crawler'.fetching # crawler.fetching) =>
       Cardinality(crawler'.fetching) >= 2]_vars

\* what the loop does instead: it awaits _process_item before it leases again,
\* so that no state has two fetches in flight
AtMostOneInFlight ==
  crawler.pc # "start" =>
    /\ Cardinality(crawler.fetching) <= 1
    /\ crawler.fetching # {} => crawler.pc \in {"fetch", "parse"}

----------------------------------------------------------------------------
(* The event loop's tasks: main()'s crawl() with on_parsed taken one outlink
   at a time, and CrawlerMonitor.monitor.  asyncio runs one task until it
   awaits something that is not ready: the idle sleep and the fetch in
   crawl(), the sleep in monitor().  Awaiting frontier.enqueue, lease or
   on_parsed runs the coroutine to its end: none of them awaits anything but
   another of them. *)

\* a crawl() whose on_parsed awaits something not ready between two outlinks
\* (an asynchronous save, a sleep): it is off the processor there too
YieldsInOnParsed(pc) == pc \in {"sleep", "fetch", "done", "on_parsed"}

\* crawl() is off the processor: in asyncio.sleep(0.1), in fetcher.fetch, or
\* past its loop (HTTPFetcher.__aexit__ awaits session.close(), where aiohttp
\* may or may not suspend it, then main() goes on)
Suspended(pc) == pc \in {"sleep", "fetch", "done"}

\* the links of the pages fetched: none, or two
TaskOutlinks == {<<>>, <<UrlX, UrlY>>, <<UrlP, UrlX>>}

\* EnhancedFrontierService.get_stats()
get_stats(F) ==
  [stats |-> F.stats, queue_size |-> Len(F.crawl_queue),
   seen_urls |-> Cardinality(F.seen_urls),
   active_hosts |-> Cardinality(DOMAIN F.rate_limiters)]

\* main(): the crawler constructed, the monitor task created, crawl() not yet
\* entered
TasksInit(max_urls) ==
  [pc |-> "start", running |-> FALSE, max_urls |-> max_urls,
   crawled_count |-> 0, item |-> None, op |-> None, lease_calls |-> 0,
   monitor |-> "ready", monitor_reads |-> 0, saw |-> None]

InitTasks ==
  /\ InitFrontier
  /\ impl = "enhanced"
  /\ canonical = CanonicalTable(Urls)
  /\ tb = None
  /\ tb_ret = None
  /\ tb_last_admit = -1
  /\ cn = None
  /\ scored = None
  /\ crawler = None
  /\ \E max_urls \in 1..MaxUrlsCfg : tasks = TasksInit(max_urls)

\* what no task changes
tasksFixed ==
  <<impl, now, ops, in_flight, ret, denied, leases, enqueue_calls,
    completed_hashes, tb, tb_ret, tb_last_admit, canonical, cn, scored,
    crawler>>

frontierFields ==
  <<crawl_queue, seen_urls, content_hashes, rate_limiters, stats>>

\* crawl(seed_urls) up to the loop
TaskStart ==
  /\ tasks.pc = "start"
  /\ Becomes(EnqueueAllE(Frontier, MaxDepthCfg, now, CrawlSeeds, 0))
  /\ tasks' = [tasks EXCEPT !.pc = "loop", !.running = TRUE]
  /\ UNCHANGED tasksFixed

\* item = await self.frontier.lease(), up to the sleep or the fetch
TaskLease ==
  /\ tasks.pc = "loop"
  /\ LoopContinues(tasks.running, tasks.crawled_count, tasks.max_urls)
  /\ tasks.lease_calls < MaxOrchLeases
  /\ LET r == lease(Frontier, now)
     IN /\ Becomes(r.F)
        /\ tasks' = [tasks EXCEPT
                       !.pc = IF r.ret = None THEN "sleep" ELSE "fetch",
                       !.item = r.ret, !.lease_calls = @ + 1]
  /\ UNCHANGED tasksFixed

TaskLoopExit ==
  /\ tasks.pc = "loop"
  /\ ~LoopContinues(tasks.running, tasks.crawled_count, tasks.max_urls)
  /\ tasks' = [tasks EXCEPT !.pc = "done"]
  /\ UNCHANGED frontierFields
  /\ UNCHANGED tasksFixed

\* asyncio.sleep(0.1) returns and crawl() is resumed
TaskSleepReturns ==
  /\ tasks.pc = "sleep"
  /\ tasks' = [tasks EXCEPT !.pc = "loop"]
  /\ UNCHANGED frontierFields
  /\ UNCHANGED tasksFixed

\* fetcher.fetch returns and crawl() is resumed: parse, then on_parsed is
\* entered with the page's outlinks
TaskOnParsedBegins(outlinks) ==
  /\ tasks.pc = "fetch"
  /\ tasks' = [tasks EXCEPT
                 !.pc = "on_parsed",
                 !.op = [name |-> "on_parsed", links |-> outlinks,
                         depth |-> tasks.item.depth, done |-> 0]]
  /\ UNCHANGED frontierFields
  /\ UNCHANGED tasksFixed

\* await self.enqueue(link, depth + 1) for the next outlink
TaskOnParsedEnqueues ==
  /\ tasks.pc = "on_parsed"
  /\ tasks.op.done < Len(tasks.op.links)
  /\ Becomes(enqueue(Frontier, MaxDepthCfg, now,
                     tasks.op.links[tasks.op.done + 1], tasks.op.depth + 1).F)
  /\ tasks' = [tasks EXCEPT !.op.done = @ + 1]
  /\ UNCHANGED tasksFixed

\* the end of on_parsed (save_crawl_result, urls_crawled += 1, or urls_failed
\* += 1 when the database raises), then crawled_count += 1
TaskOnParsedEnds(db_ok) ==
  /\ tasks.pc = "on_parsed"
  /\ tasks.op.done = Len(tasks.op.links)
  /\ Becomes(IF db_ok THEN [Frontier EXCEPT !.stats.urls_crawled = @ + 1]
             ELSE [Frontier EXCEPT !.stats.urls_failed = @ + 1])
  /\ tasks' = [tasks EXCEPT !.pc = "loop", !.op = None, !.item = None,
                            !.crawled_count = @ + 1]
  /\ UNCHANGED tasksFixed

\* the monitor task is given the processor when crawl() is off it:
\* while self.crawler.running: stats = self.crawler.frontier.get_stats(),
\* db_stats = self.crawler.db.get_stats(), then asyncio.sleep(interval).
\* db_ok: the database answers (else sqlite3 raises and the task ends)
MonitorRuns(db_ok) ==
  /\ tasks.monitor = "ready"
  /\ Suspended(tasks.pc)
  /\ tasks.running \/ db_ok
  /\ tasks' = IF tasks.running
              THEN [tasks EXCEPT !.monitor = IF db_ok THEN "sleep" ELSE "raised",
                                 !.monitor_reads = @ + 1,
                                 !.saw = [stats |-> get_stats(Frontier),
                                          partway |-> tasks.op # None]]
              ELSE [tasks EXCEPT !.monitor = "returned"]
  /\ UNCHANGED frontierFields
  /\ UNCHANGED tasksFixed

\* the monitor's sleep is over
MonitorWakes ==
  /\ tasks.monitor = "sleep"
  /\ tasks.monitor_reads < MaxMonitorReads
  /\ tasks' = [tasks EXCEPT !.monitor = "ready"]
  /\ UNCHANGED frontierFields
  /\ UNCHANGED tasksFixed

\* crawler.stop(), called by another task while crawl() is off the
\* processor: self.running = False and nothing else
TaskStop ==
  /\ Suspended(tasks.pc)
  /\ tasks.running
  /\ tasks' = [tasks EXCEPT !.running = FALSE]
  /\ UNCHANGED frontierFields
  /\ UNCHANGED tasksFixed

\* main() after crawl() has returned: crawler.stop(); monitor_task.cancel()
\* in one turn.  A monitor that has not ended is cancelled where it sleeps;
\* main() then prints the statistics and returns, and nothing runs after it
MainStops ==
  /\ tasks.pc = "done"
  /\ tasks' = [tasks EXCEPT
                 !.pc = "ended",
                 !.running = FALSE,
                 !.monitor = IF @ \in {"sleep", "ready"} THEN "cancelled"
                             ELSE @]
  /\ UNCHANGED frontierFields
  /\ UNCHANGED tasksFixed

NextTasks ==
  \/ TaskStart
  \/ TaskLease
  \/ TaskLoopExit
  \/ TaskSleepReturns
  \/ \E outlinks \in TaskOutlinks : TaskOnParsedBegins(outlinks)
  \/ TaskOnParsedEnqueues
  \/ \E db_ok \in BOOLEAN : TaskOnParsedEnds(db_ok)
  \/ \E db_ok \in BOOLEAN : MonitorRuns(db_ok)
  \/ MonitorWakes
  \/ TaskStop
  \/ MainStops
  \/ Tick

SpecTasks == InitTasks /\ [][NextTasks]_vars

\* an on_parsed has been entered and has not returned
Partway == tasks.op # None

\* C25: while an on_parsed is partway through, the only steps that touch the
\* tasks or the frontier are its own: its next outlink's enqueue, or its end
\* after the last one.  No lease is made, the monitor is not run (its timer
\* may expire, which makes it ready) and stop() is not called in between; and
\* what the monitor reads is never the frontier of an on_parsed partway
\* through.  enqueue and lease are single steps.
C25_SingleWriter ==
  /\ [][(Partway /\ <<tasks, frontierFields>>' # <<tasks, frontierFields>>) =>
          \/ /\ tasks' = [tasks EXCEPT !.monitor = "ready"]
             /\ UNCHANGED frontierFields
          \/ /\ tasks'.lease_calls = tasks.lease_calls
             /\ tasks'.monitor = tasks.monitor
             /\ tasks'.monitor_reads = tasks.monitor_reads
             /\ tasks'.saw = tasks.saw
             /\ tasks'.running = tasks.running
             /\ \/ /\ tasks.op.done < Len(tasks.op.links)
                   /\ tasks'.op = [tasks.op EXCEPT !.done = @ + 1]
                   /\ Frontier' = enqueue(Frontier, MaxDepthCfg, now,
                                          tasks.op.links[tasks.op.done + 1],
                                          tasks.op.depth + 1).F
                \/ /\ tasks.op.done = Len(tasks.op.links)
                   /\ tasks'.op = None
                   /\ crawl_queue' = crawl_queue
                   /\ seen_urls' = seen_urls]_vars
  /\ [](tasks.saw # None => ~tasks.saw.partway)

\* an on_parsed between its two outlinks' enqueues, the first of which was
\* admitted, the monitor asleep after a read
C25_Witness ==
  /\ Partway
  /\ tasks.op.done = 1
  /\ Len(tasks.op.links) = 2
  /\ stats.urls_enqueued = 3
  /\ tasks.monitor = "sleep"
  /\ tasks.saw # None

----------------------------------------------------------------------------
(* The order of the depth check and the duplicate check *)

\* C26: an enqueue beyond the depth ceiling leaves the deduplicated counter
\* as it was, whether or not the URL's id is in the seen set; the counter
\* grows only in enqueue calls within the ceiling.
C26_DepthCheckFirst ==
  [][\A url \in RawUrls, depth \in Depths :
       EnqueueCall(url, depth) =>
         /\ (depth > MaxDepthCfg /\ Cid(url) \in seen_urls) =>
              /\ ret' = None
              /\ stats'.urls_deduplicated = stats.urls_deduplicated
         /\ stats'.urls_deduplicated > stats.urls_deduplicated =>
              depth <= MaxDepthCfg]_vars

----------------------------------------------------------------------------
(* Politeness: the leases with the clock's reading *)

TimedLease == LeaseLogging(TRUE)

\* the clock of the politeness check
PoliteTick ==
  /\ now < MaxPoliteTime
  /\ now' = now + 1
  /\ UNCHANGED <<impl, crawl_queue, seen_urls, content_hashes, rate_limiters,
                 stats, in_flight, ret, ops, denied, leases, enqueue_calls,
                 completed_hashes, tb, tb_ret, tb_last_admit, canonical, cn,
                 scored, tasks, crawler>>

\* two pages of one host and one of another
PoliteUrls == {UrlRoot, UrlX, UrlP}

\* the pages link to nothing or to the first host's second page
PoliteOutlinks == {<<>>, <<UrlX>>}

\* a client that enqueues the pages at depth 0, leases and completes in any
\* order, MaxPoliteOps times
NextPolite ==
  \/ /\ ops < MaxPoliteOps
     /\ \/ \E url \in PoliteUrls : EnqueueCall(url, 0)
        \/ TimedLease
        \/ \E item \in in_flight, outlinks \in PoliteOutlinks :
             OnCompleted(item, "h1", outlinks)
  \/ PoliteTick

SpecPolite == Init /\ [][NextPolite]_vars

\* the leases so far of items of host h made at times in s..(s + T)
LeasesInWindow(h, s, T) ==
  {i \in 1..Len(leases) :
     leases[i].item.hostname = h /\ s <= leases[i].at /\ leases[i].at <= s + T}

\* C27: two leases of items of one host are at least 1/rate apart, in any
\* window of length T at most 1 + rate * T items of one host are leased, and
\* a lease of an item of host h takes one token from h's bucket and none from
\* any other (a bucket asked and found empty is only refilled).
C27_Politeness ==
  /\ [](\A i, j \in 1..Len(leases) :
          (i < j /\ leases[i].item.hostname = leases[j].item.hostname)
            => (leases[j].at - leases[i].at) * RateNum >= RateDen)
  /\ [](\A h \in DOMAIN rate_limiters, s \in 0..MaxPoliteTime,
           T \in 0..MaxPoliteTime :
          Cardinality(LeasesInWindow(h, s, T)) * RateDen <= RateDen + RateNum * T)
  /\ [][(TimedLease /\ ret' # None) =>
          \A h \in DOMAIN rate_limiters :
            IF h = ret'.hostname
            THEN rate_limiters'[h].tokens
                   = Refilled(rate_limiters[h], now) - rate_limiters[h].den
            ELSE rate_limiters'[h].tokens >= rate_limiters[h].tokens]_vars

\* a host leased twice, 1/rate apart, and another host's item leased in
\* between
C27_Witness ==
  /\ Len(leases) = 3
  /\ leases[1].item.hostname = leases[3].item.hostname
  /\ leases[2].item.hostname # leases[1].item.hostname
  /\ (leases[3].at - leases[1].at) * RateNum = RateDen

----------------------------------------------------------------------------
(* The frontier's accounting *)

\* C28: the enqueued counter is the size of the seen set and is the queue's
\* length plus the number of leases made so far; every queued item's
\* canonical id is in the seen set and its host has a rate limiter.
C28_Accounting ==
  /\ stats.urls_enqueued = Cardinality(seen_urls)
  /\ stats.urls_enqueued = Len(crawl_queue) + Len(leases)
  /\ \A i \in 1..Len(crawl_queue) :
       /\ crawl_queue[i].canonical_id \in seen_urls
       /\ crawl_queue[i].hostname \in DOMAIN rate_limiters

\* three pages admitted, the last of them as an outlink of the one that was
\* leased and completed; two are queued
C28_Witness ==
  /\ stats.urls_enqueued = 3
  /\ Len(leases) = 1
  /\ Len(crawl_queue) = 2
  /\ in_flight = {}
  /\ stats.urls_crawled = 1

----------------------------------------------------------------------------
(* The loop on an empty frontier *)

\* the loop is running with nothing queued and nothing in flight, its budget
\* not used up and stop() not called
Idle ==
  /\ crawler.pc \in {"loop", "sleep"}
  /\ crawl_queue = <<>>
  /\ crawler.item = None
  /\ crawler.crawled_count < crawler.max_urls
  /\ impl = "enhanced" => crawler.running

\* C29: the loop returns only when its budget is used up or stop() was
\* called, never because the frontier is empty: from an idle state the loop's
\* step at the lease is a lease that returns None and goes to the idle sleep,
\* its step at the sleep goes back to the lease, and the state stays idle
\* until stop() is called.
C29_EmptyIsNoTermination ==
  /\ [](crawler.pc = "done" =>
          \/ crawler.crawled_count >= crawler.max_urls
          \/ crawler.stopped)
  /\ [][(Idle /\ crawler' # crawler) =>
          /\ crawler'.pc # "done"
          /\ crawler'.running = crawler.running =>
               /\ Idle'
               /\ crawler.pc = "loop" =>
                    /\ crawler'.pc = "sleep"
                    /\ ret' = None
                    /\ crawler'.lease_calls = crawler.lease_calls + 1
               /\ crawler.pc = "sleep" => crawler'.pc = "loop"]_vars

\* both pages crawled, then a lease that found the queue empty, a sleep, and
\* a second such lease
C29_Witness ==
  /\ Idle
  /\ crawler.pc = "sleep"
  /\ crawler.crawled_count = 2
  /\ crawler.lease_calls >= 4

----------------------------------------------------------------------------
(* A crawl to the end of what it can discover or of its budget: the loop of
   crawl() and of the demo with a budget of up to MaxPages, the clock running
   as long as a queued item waits for its host's bucket, and stop() never
   called *)

\* two pages of one host; the pages link to any of the crawl's URLs
StarveSeeds == <<UrlRoot, UrlX>>

InitStarve ==
  /\ InitFrontier
  /\ canonical = CanonicalTable(Urls)
  /\ tb = None
  /\ tb_ret = None
  /\ tb_last_admit = -1
  /\ cn = None
  /\ scored = None
  /\ tasks = None
  /\ \E max_urls \in 1..MaxPages, max_concurrent \in 0..MaxConcurrentCfg :
       /\ impl = "documented" => max_concurrent = 1
       /\ crawler = CrawlerInit(max_urls, max_concurrent)

\* crawl(seed_urls) / the demo's seeding, up to the loop
StarveStart ==
  /\ crawler.pc = "start"
  /\ Becomes(IF impl = "documented"
             THEN EnqueueAllD(Frontier, MaxDepthCfg, now, StarveSeeds, 0)
             ELSE EnqueueAllE(Frontier, MaxDepthCfg, now, StarveSeeds, 0))
  /\ crawler' = [crawler EXCEPT !.pc = "loop", !.running = (impl = "enhanced"),
                                !.permits = crawler.max_concurrent]
  /\ enqueue_calls' = enqueue_calls \cup
       {[url |-> StarveSeeds[i], deep |-> FALSE] : i \in 1..Len(StarveSeeds)}
  /\ UNCHANGED <<in_flight, ret, leases, denied, completed_hashes>>
  /\ UNCHANGED orchFixed

\* the loop's lease: as often as it likes when an item is admitted,
\* MaxOrchLeases calls in all otherwise
StarveLease ==
  /\ LeaseAdmits \/ crawler.lease_calls < MaxOrchLeases
  /\ LoopLeaseBody

\* the demo's try block for a page with any outlinks: process_crawled_content,
\* crawled_count += 1
StarveProcess(content_hash, outlinks) ==
  /\ impl = "documented"
  /\ crawler.pc = "parse"
  /\ LET item == crawler.item
         doc == ParseResult(item, content_hash, outlinks)
     IN /\ Becomes(process_crawled_content(Frontier, MaxDepthCfg, now, doc))
        /\ in_flight' = in_flight \ {item}
        /\ enqueue_calls' = enqueue_calls
                              \cup LinkCalls(item, content_hash, outlinks)
        /\ completed_hashes' = completed_hashes \cup ({content_hash} \ {""})
        /\ crawler' = [crawler EXCEPT
                         !.pc = "pause", !.item = None,
                         !.fetching = @ \ {item},
                         !.crawled_count = @ + 1,
                         !.on_parsed_calls = @ + 1,
                         !.last_fetch = "ok"]
  /\ ret' = None
  /\ UNCHANGED <<leases, denied>>
  /\ UNCHANGED orchFixed

StarveProcessed ==
  \E content_hash \in ContentHashes, outlinks \in OutlinkLists :
    StarveProcess(content_hash, outlinks)

\* the clock advances, at least until the bucket of a queued item admits
StarveTick ==
  /\ now < MaxTime \/ (crawl_queue # <<>> /\ ~LeaseAdmits)
  /\ now' = now + 1
  /\ UNCHANGED <<impl, crawl_queue, seen_urls, content_hashes, rate_limiters,
                 stats, in_flight, ret, ops, denied, leases, enqueue_calls,
                 completed_hashes, tb, tb_ret, tb_last_admit, canonical, cn,
                 scored, tasks, crawler>>

NextStarve ==
  \/ StarveStart
  \/ StarveLease
  \/ SleepReturns
  \/ ItemProcessed
  \/ DemoFetchReturns
  \/ StarveProcessed
  \/ LoopExit
  \/ StarveTick

SpecStarve == InitStarve /\ [][NextStarve]_vars

\* time advances and the loop runs: the event loop resumes it after a sleep
\* and when the fetch returns, and a loop that can lease does
SpecStarveFair ==
  /\ SpecStarve
  /\ WF_vars(StarveTick)
  /\ WF_vars(StarveLease)
  /\ WF_vars(SleepReturns \/ ItemProcessed \/ DemoFetchReturns
               \/ StarveProcessed)

\* crawled_count has reached max_urls: the loop leases no more
BudgetExhausted == crawler.crawled_count >= crawler.max_urls

\* C30: while the budget is not exhausted, every item that enters the queue
\* is eventually leased (RawUrls are the seeds and every page a page links
\* to).
C30_NoStarvation ==
  \A url \in RawUrls :
    (QueuedOf(url) # {}) ~> (LeasesOf(url) # {} \/ BudgetExhausted)

\* C30, for a crawler configured with max_concurrent >= 1.
C30_NoStarvationWithPermits ==
  \A url \in RawUrls :
    (QueuedOf(url) # {} /\ crawler.max_concurrent >= 1)
      ~> (LeasesOf(url) # {} \/ BudgetExhausted)

\* a page at depth 1 was leased while a page at depth 0, asked first and
\* denied by its host's bucket, stayed queued
C30_Witness ==
  /\ crawler.max_concurrent >= 1
  /\ \E i \in 1..Len(leases) :
       /\ leases[i].item.depth = 1
       /\ \E k \in 1..Len(crawl_queue) :
            /\ crawl_queue[k].depth = 0
            /\ crawl_queue[k].canonical_id \in leases[i].queued
            /\ crawl_queue[k].canonical_id \in denied
            /\ crawl_queue[k].priority_score < leases[i].item.priority_score
=============================================================================
